---- MODULE Spec2Model ----
(***************************************************************************)
(* Model of grafana/detect-angular-dashboards: the detection engine        *)
(* (detector.Detector: Run, checkPanels, checkPanel, isLegacyPanel) and    *)
(* the Grafana / grafana.com API clients it consumes.                      *)
(*                                                                         *)
(* Source versions modelled (the files hold several historical versions,   *)
(* the newest one is the authority):                                       *)
(*   detector     src/detector/detector_test.go lines 712-1033             *)
(*   grafana api  src/unnamed/part_007                                     *)
(*   gcom api     src/api/gcom/gcom.go lines 1-37                          *)
(***************************************************************************)
EXTENDS Integers, Sequences, FiniteSets, TLC

(***************************************************************************)
(* Program constants                                                       *)
(***************************************************************************)
pluginIDGraphOld == "graph"
pluginIDTable == "table"
pluginIDTableOld == "table-old"
pluginIDPiechart == "grafana-piechart-panel"
pluginIDWorldmap == "grafana-worldmap-panel"
pluginIDSinglestatOld == "grafana-singlestat-panel"
pluginIDSinglestat == "singlestat"

DetectionTypePanel == "panel"
DetectionTypeDatasource == "datasource"
DetectionTypeLegacyPanel == "legacyPanel"

\* dashboardSchemaVersion < 24 in isLegacyPanel
TableMigrationSchemaVersion == 24

(***************************************************************************)
(* Go maps.  A map is a function on the set of its keys; reading a missing *)
(* key yields the zero value of the value type.                            *)
(***************************************************************************)
EmptyMap == [k \in {} |-> FALSE]

MapBool(m, k) == IF k \in DOMAIN m THEN m[k] ELSE FALSE

MapStr(m, k) == IF k \in DOMAIN m THEN m[k] ELSE ""

MapPut(m, k, v) == [x \in (DOMAIN m) \cup {k} |-> IF x = k THEN v ELSE m[x]]

(***************************************************************************)
(* The value of a panel's "datasource" field (interface{} in Go), by the   *)
(* shape of the JSON it was decoded from.  v is the string payload.        *)
(*   nil              absent or null                                       *)
(*   str              JSON string (v, possibly "")                         *)
(*   obj              JSON object whose "type" is the string v             *)
(*   objNoType        JSON object without "type" (or "type": null)         *)
(*   objBadType       JSON object whose "type" is not a string             *)
(*   num, list        any other JSON value                                 *)
(*   PanelDatasource  grafana.PanelDatasource{Type: v} (after conversion)  *)
(***************************************************************************)
DsNil == [k |-> "nil", v |-> ""]
DsStr(s) == [k |-> "str", v |-> s]
DsObj(t) == [k |-> "obj", v |-> t]
DsObjNoType == [k |-> "objNoType", v |-> ""]
DsObjBadType == [k |-> "objBadType", v |-> ""]
DsNum == [k |-> "num", v |-> ""]
DsList == [k |-> "list", v |-> ""]
PanelDatasource(t) == [k |-> "PanelDatasource", v |-> t]

DashboardPanel(type, title, ds, panels) ==
    [Type |-> type, Title |-> title, Datasource |-> ds, Panels |-> panels]

Detection(kind, pluginID, title) ==
    [DetectionType |-> kind, PluginID |-> pluginID, Title |-> title]

NoErr == "nil"
ErrUnknownDatasourceType == "unknown unmarshaled datasource type"

VARIABLES
    \* Detector fields
    angularDetected,        \* map plugin id -> bool
    datasourcePluginIDs,    \* map datasource name -> plugin id
    maxConcurrency,         \* capacity of the per-page semaphore
    \* the remote side
    server,                 \* listing pages, base URL, population of answers
    \* Detector.Run
    pc,                     \* position of the main goroutine
    frontendSettings,       \* the fetched bundle
    probed,                 \* the panel entry the probe inspected
    useGCOM,
    permissions,            \* the answer of the permission fetch
    pendingKeys,            \* map keys the running range loop has not visited
    pendingPlugins,         \* plugins the catalog loop has not visited
    gcomLog,                \* per visited plugin, the plugin and the catalog's answer
    page,
    dashboards,             \* the listed page
    spawned,                \* number of goroutines started for the page
    workers,                \* the goroutines of the page
    semaphore,              \* workers holding a slot of the semaphore
    mu,                     \* worker holding the mutex, 0 when free
    wg,                     \* wait group counter
    downloadErrors,
    finalOutput,
    ret,                    \* what Run returned
    calls,                  \* remote calls of the main goroutine, in order
    fetchLog,               \* per dashboard UID, the answer of GetDashboard
    \* classifier harness: one dashboard definition taken through
    \* GetDashboard's ConvertPanels, checkPanel and checkPanels
    cpKind,                 \* "single" (one childless panel) | "tree"
    cpStage,                \* "off" | "raw" | "fetched" | "panicked"
    cpRaw,                  \* the definition as decoded from the response body
    cpDef,                  \* the definition GetDashboard returns
    cpOwn,                  \* result of checkPanel on the first top-level panel
    cpAll,                  \* result of checkPanels on the top-level panels
    cpAgain,                \* result of a second checkPanels on the same panels
    \* the callers of Detector.Run: main and its goroutines
    mainPc,                 \* position of main: "run" | "send" | "select" | "exited"
    ctxDone,                \* the context of main is cancelled
    tick,                   \* ticker.C holds a tick
    consumerPc,             \* the goroutine ranging over outputChan
    consumerData,           \* the slice it received
    outputData,             \* output.data
    ready,                  \* the readiness flag
    runs,                   \* calls of Run so far
    detectorRuns,           \* calls of Run on the current Detector
    okRuns,                 \* runs that returned without error
    stores,                 \* assignments to output.data so far
    httpLog                 \* the answers of the HTTP server, in order

(***************************************************************************)
(* grafana.ConvertPanels: recursively replaces object datasources by       *)
(* PanelDatasource.  m["type"].(string) panics when "type" is present and  *)
(* not a string.                                                           *)
(***************************************************************************)
ConvertDatasource(ds) ==
    IF ds.k \notin {"obj", "objNoType", "objBadType"}
    THEN ds                                   \* not a map: keep as-is
    ELSE IF ds.k = "objNoType" THEN PanelDatasource("")
    ELSE PanelDatasource(ds.v)

RECURSIVE ConvertPanelsPanics(_)
ConvertPanelsPanics(panels) ==
    \E i \in 1..Len(panels) :
        \/ ConvertPanelsPanics(panels[i].Panels)
        \/ panels[i].Datasource.k = "objBadType"

RECURSIVE ConvertPanels(_)
ConvertPanels(panels) ==
    [i \in 1..Len(panels) |->
        DashboardPanel(panels[i].Type, panels[i].Title,
                       ConvertDatasource(panels[i].Datasource),
                       ConvertPanels(panels[i].Panels))]

(***************************************************************************)
(* Detector.isLegacyPanel                                                  *)
(***************************************************************************)
LegacyPanelTypes ==
    {pluginIDGraphOld, pluginIDTableOld, pluginIDPiechart, pluginIDWorldmap,
     pluginIDSinglestatOld, pluginIDSinglestat}

\* isLegacyPanel with the schema bound off by one (<= 24 instead of < 24)
isLegacyPanel_Le24(pluginType, dashboardSchemaVersion) ==
    IF pluginType \in LegacyPanelTypes THEN TRUE
    ELSE IF pluginType = pluginIDTable
            /\ dashboardSchemaVersion <= TableMigrationSchemaVersion THEN TRUE
    ELSE FALSE

isLegacyPanel(pluginType, dashboardSchemaVersion) ==
    IF pluginType \in LegacyPanelTypes THEN TRUE
    ELSE IF pluginType = pluginIDTable
            /\ dashboardSchemaVersion < TableMigrationSchemaVersion THEN TRUE
    ELSE FALSE

(***************************************************************************)
(* Detector.checkPanel: returns (out, err)                                 *)
(***************************************************************************)
\* checkPanel consulting the classification map before the legacy list
checkPanel_AngularFirst(dashboardDefinition, p) ==
    LET out1 ==
            IF MapBool(angularDetected, p.Type)
            THEN << Detection(DetectionTypePanel, p.Type, p.Title) >>
            ELSE IF isLegacyPanel(p.Type, dashboardDefinition.Dashboard.SchemaVersion)
            THEN << Detection(DetectionTypeLegacyPanel, p.Type, p.Title) >>
            ELSE << >>
        ds == p.Datasource
    IN  IF ds.k = "nil" \/ (ds.k = "str" /\ ds.v = "")
        THEN [out |-> out1, err |-> NoErr]
        ELSE IF ds.k \notin {"str", "PanelDatasource"}
        THEN [out |-> << >>, err |-> ErrUnknownDatasourceType]
        ELSE LET dsPlugin == IF ds.k = "str"
                             THEN MapStr(datasourcePluginIDs, ds.v)
                             ELSE ds.v
             IN  [out |-> IF MapBool(angularDetected, dsPlugin)
                          THEN Append(out1, Detection(DetectionTypeDatasource,
                                                      dsPlugin, p.Title))
                          ELSE out1,
                  err |-> NoErr]

\* checkPanel taking a bare datasource name for the plugin id, without the name map
checkPanel_NameAsPluginID(dashboardDefinition, p) ==
    LET out1 ==
            IF isLegacyPanel(p.Type, dashboardDefinition.Dashboard.SchemaVersion)
            THEN << Detection(DetectionTypeLegacyPanel, p.Type, p.Title) >>
            ELSE IF MapBool(angularDetected, p.Type)
            THEN << Detection(DetectionTypePanel, p.Type, p.Title) >>
            ELSE << >>
        ds == p.Datasource
    IN  IF ds.k = "nil" \/ (ds.k = "str" /\ ds.v = "")
        THEN [out |-> out1, err |-> NoErr]
        ELSE IF ds.k \notin {"str", "PanelDatasource"}
        THEN [out |-> << >>, err |-> ErrUnknownDatasourceType]
        ELSE LET dsPlugin == ds.v
             IN  [out |-> IF MapBool(angularDetected, dsPlugin)
                          THEN Append(out1, Detection(DetectionTypeDatasource,
                                                      dsPlugin, p.Title))
                          ELSE out1,
                  err |-> NoErr]

\* checkPanel skipping the datasource check once the panel check has matched
checkPanel_DsOnlyIfNoPanel(dashboardDefinition, p) ==
    LET out1 ==
            IF isLegacyPanel(p.Type, dashboardDefinition.Dashboard.SchemaVersion)
            THEN << Detection(DetectionTypeLegacyPanel, p.Type, p.Title) >>
            ELSE IF MapBool(angularDetected, p.Type)
            THEN << Detection(DetectionTypePanel, p.Type, p.Title) >>
            ELSE << >>
        ds == p.Datasource
    IN  IF ds.k = "nil" \/ (ds.k = "str" /\ ds.v = "")
        THEN [out |-> out1, err |-> NoErr]
        ELSE IF ds.k \notin {"str", "PanelDatasource"}
        THEN [out |-> << >>, err |-> ErrUnknownDatasourceType]
        ELSE LET dsPlugin == IF ds.k = "str"
                             THEN MapStr(datasourcePluginIDs, ds.v)
                             ELSE ds.v
             IN  [out |-> IF out1 = << >> /\ MapBool(angularDetected, dsPlugin)
                          THEN Append(out1, Detection(DetectionTypeDatasource,
                                                      dsPlugin, p.Title))
                          ELSE out1,
                  err |-> NoErr]

\* checkPanel with the legacy and the angular check as two independent ifs
checkPanel_BothPanelKinds(dashboardDefinition, p) ==
    LET out1 ==
            (IF isLegacyPanel(p.Type, dashboardDefinition.Dashboard.SchemaVersion)
             THEN << Detection(DetectionTypeLegacyPanel, p.Type, p.Title) >>
             ELSE << >>)
            \o
            (IF MapBool(angularDetected, p.Type)
             THEN << Detection(DetectionTypePanel, p.Type, p.Title) >>
             ELSE << >>)
        ds == p.Datasource
    IN  IF ds.k = "nil" \/ (ds.k = "str" /\ ds.v = "")
        THEN [out |-> out1, err |-> NoErr]
        ELSE IF ds.k \notin {"str", "PanelDatasource"}
        THEN [out |-> << >>, err |-> ErrUnknownDatasourceType]
        ELSE LET dsPlugin == IF ds.k = "str"
                             THEN MapStr(datasourcePluginIDs, ds.v)
                             ELSE ds.v
             IN  [out |-> IF MapBool(angularDetected, dsPlugin)
                          THEN Append(out1, Detection(DetectionTypeDatasource,
                                                      dsPlugin, p.Title))
                          ELSE out1,
                  err |-> NoErr]

checkPanel(dashboardDefinition, p) ==
    LET out1 ==
            IF isLegacyPanel(p.Type, dashboardDefinition.Dashboard.SchemaVersion)
            THEN << Detection(DetectionTypeLegacyPanel, p.Type, p.Title) >>
            ELSE IF MapBool(angularDetected, p.Type)
            THEN << Detection(DetectionTypePanel, p.Type, p.Title) >>
            ELSE << >>
        ds == p.Datasource
    IN  IF ds.k = "nil" \/ (ds.k = "str" /\ ds.v = "")
        THEN [out |-> out1, err |-> NoErr]
        ELSE IF ds.k \notin {"str", "PanelDatasource"}
        THEN [out |-> << >>, err |-> ErrUnknownDatasourceType]
        ELSE LET dsPlugin == IF ds.k = "str"
                             THEN MapStr(datasourcePluginIDs, ds.v)
                             ELSE ds.v
             IN  [out |-> IF MapBool(angularDetected, dsPlugin)
                          THEN Append(out1, Detection(DetectionTypeDatasource,
                                                      dsPlugin, p.Title))
                          ELSE out1,
                  err |-> NoErr]

(***************************************************************************)
(* Detector.checkPanels: the loop over panels, from index i with the       *)
(* detections accumulated so far.                                          *)
(***************************************************************************)
\* checkPanels appending a panel's children before the panel's own detections
RECURSIVE checkPanelsLoop_ChildrenFirst(_, _, _, _)
checkPanelsLoop_ChildrenFirst(dashboardDefinition, panels, i, out) ==
    IF i > Len(panels) THEN [out |-> out, err |-> NoErr]
    ELSE LET p == panels[i]
             r == checkPanel(dashboardDefinition, p)
         IN  IF r.err # NoErr THEN [out |-> << >>, err |-> r.err]
             ELSE IF Len(p.Panels) = 0
             THEN checkPanelsLoop_ChildrenFirst(dashboardDefinition, panels, i + 1,
                                                out \o r.out)
             ELSE LET rr == checkPanelsLoop_ChildrenFirst(dashboardDefinition,
                                                          p.Panels, 1, << >>)
                  IN  IF rr.err # NoErr THEN [out |-> << >>, err |-> rr.err]
                      ELSE checkPanelsLoop_ChildrenFirst(dashboardDefinition, panels,
                                                         i + 1, (out \o rr.out) \o r.out)

RECURSIVE checkPanelsLoop(_, _, _, _)
checkPanelsLoop(dashboardDefinition, panels, i, out) ==
    IF i > Len(panels) THEN [out |-> out, err |-> NoErr]
    ELSE LET p == panels[i]
             r == checkPanel(dashboardDefinition, p)
         IN  IF r.err # NoErr THEN [out |-> << >>, err |-> r.err]
             ELSE IF Len(p.Panels) = 0
             THEN checkPanelsLoop(dashboardDefinition, panels, i + 1, out \o r.out)
             ELSE LET rr == checkPanelsLoop(dashboardDefinition, p.Panels, 1, << >>)
                  IN  IF rr.err # NoErr THEN [out |-> << >>, err |-> rr.err]
                      ELSE checkPanelsLoop(dashboardDefinition, panels, i + 1,
                                           (out \o r.out) \o rr.out)

checkPanels(dashboardDefinition, panels) ==
    checkPanelsLoop(dashboardDefinition, panels, 1, << >>)

(***************************************************************************)
(* Remote responses and the values built from them                         *)
(***************************************************************************)
\* largest number of dashboards the server lists
MaxDashboards == 3

\* largest value of the -max-concurrency flag
MaxConcurrencyFlag == 2

\* error values: kind names the fmt.Errorf that built the error, errors holds
\* the collected per-dashboard errors of the aggregate error
Error(kind) == [kind |-> kind, errors |-> << >>]

NilError == Error("nil")

errUnknownAngularStatus == "could not determine if plugin is angular or not, use GCOM instead"

\* FrontendSettingsPanel / FrontendSettingsDatasource markers: Angular is
\* the pointer to the nested struct (>= 10.3.0), AngularDetected the pointer
\* to bool (>= 10.1.0 && < 10.3.0); "nil", "true" or "false"
Marker(angular, angularDetectedField) ==
    [Angular |-> angular, AngularDetected |-> angularDetectedField]

FrontendSettingsDatasource(type, marker) == [Type |-> type, Marker |-> marker]

FrontendSettings(panels, datasources) ==
    [Panels |-> panels, Datasources |-> datasources]

NoFrontendSettings == FrontendSettings([k \in {} |-> Marker("nil", "nil")], [k \in {} |-> Marker("nil", "nil")])

\* FrontendSettingsPanel.IsAngular with the two markers consulted in the
\* opposite order
FrontendSettingsPanel_IsAngular_OldFirst(p) ==
    IF p.AngularDetected # "nil" THEN [v |-> p.AngularDetected = "true", err |-> NoErr]
    ELSE IF p.Angular # "nil" THEN [v |-> p.Angular = "true", err |-> NoErr]
    ELSE [v |-> FALSE, err |-> errUnknownAngularStatus]

FrontendSettingsPanel_IsAngular(p) ==
    IF p.Angular # "nil" THEN [v |-> p.Angular = "true", err |-> NoErr]
    ELSE IF p.AngularDetected # "nil" THEN [v |-> p.AngularDetected = "true", err |-> NoErr]
    ELSE [v |-> FALSE, err |-> errUnknownAngularStatus]

FrontendSettingsDatasource_IsAngular(d) ==
    IF d.Marker.Angular # "nil" THEN [v |-> d.Marker.Angular = "true", err |-> NoErr]
    ELSE IF d.Marker.AngularDetected # "nil"
    THEN [v |-> d.Marker.AngularDetected = "true", err |-> NoErr]
    ELSE [v |-> FALSE, err |-> errUnknownAngularStatus]

\* the probe of Run: p.Angular == nil && p.AngularDetected == nil, looking
\* at the older marker only
ProbeUseGCOM_OldMarkerOnly(p) == p.AngularDetected = "nil"

ProbeUseGCOM(p) == p.Angular = "nil" /\ p.AngularDetected = "nil"

Plugin(id, version) == [ID |-> id, Version |-> version]

PluginVersion(version, detected) == [Version |-> version, AngularDetected |-> detected]

\* the catalog's answer to plugins/<slug>/versions: a bad status code, any
\* other request error, or the list of versions
CatalogResponse(status, items) == [status |-> status, Items |-> items]

RECURSIVE FindVersion(_, _, _)
FindVersion(items, i, version) ==
    IF i > Len(items) THEN FALSE
    ELSE IF items[i].Version = version THEN items[i].AngularDetected
    ELSE FindVersion(items, i + 1, version)

\* gcom.APIClient.GetAngularDetected treating a bad status code as an error
GetAngularDetected_BadStatusFatal(resp, version) ==
    IF resp.status # "ok" THEN [v |-> FALSE, err |-> "request"]
    ELSE [v |-> FindVersion(resp.Items, 1, version), err |-> NoErr]

\* gcom.APIClient.GetAngularDetected, given the catalog's answer
GetAngularDetected(resp, version) ==
    IF resp.status = "badStatus" THEN [v |-> FALSE, err |-> NoErr]
    ELSE IF resp.status = "error" THEN [v |-> FALSE, err |-> "request"]
    ELSE [v |-> FindVersion(resp.Items, 1, version), err |-> NoErr]

Datasource(name, type) == [Name |-> name, Type |-> type]

\* d.datasourcePluginIDs[ds.Name] = ds.Type for each entry, in order
RECURSIVE DatasourceMap(_, _, _)
DatasourceMap(apiDs, i, m) ==
    IF i > Len(apiDs) THEN m
    ELSE DatasourceMap(apiDs, i + 1, MapPut(m, apiDs[i].Name, apiDs[i].Type))

ListedDashboard(uid) ==
    [UID |-> uid, URL |-> << "/d", uid >>, Title |-> << "title", uid >>]

DashboardMeta(uid) ==
    [FolderTitle |-> << "folder", uid >>,
     CreatedBy |-> << "creator", uid >>,
     UpdatedBy |-> << "updater", uid >>,
     Created |-> << "created", uid >>,
     Updated |-> << "updated", uid >>]

NoMeta == DashboardMeta(0)

DashboardDefinition(panels, schemaVersion, meta) ==
    [Dashboard |-> [Panels |-> panels, SchemaVersion |-> schemaVersion],
     Meta |-> meta]

NoDefinition == DashboardDefinition(<< >>, 0, NoMeta)

\* output.Dashboard
Dashboard(url, dash, def, detections) ==
    [Detections |-> detections,
     URL |-> url,
     Title |-> dash.Title,
     Folder |-> def.Meta.FolderTitle,
     CreatedBy |-> def.Meta.CreatedBy,
     UpdatedBy |-> def.Meta.UpdatedBy,
     Created |-> def.Meta.Created,
     Updated |-> def.Meta.Updated]

NoDashboard == Dashboard(<< >>, ListedDashboard(0), NoDefinition, << >>)

\* url.JoinPath(strings.TrimSuffix(baseURL, "/api"), dash.URL): baseURL is
\* [text, api, valid], api telling that text is followed by "/api" and valid
\* that url.Parse accepts it; the failure value is the empty string
BaseURLValue(text, api, valid) == [text |-> text, api |-> api, valid |-> valid]

TrimSuffixAPI(base) == BaseURLValue(base.text, FALSE, base.valid)

JoinPath(base, elem) ==
    IF base.valid THEN [url |-> << base.text >> \o elem, err |-> NoErr]
    ELSE [url |-> << >>, err |-> "parse"]

DashboardAbsURL(base, dash) ==
    LET r == JoinPath(TrimSuffixAPI(base), dash.URL)
    IN  IF r.err # NoErr THEN << >> ELSE r.url

(***************************************************************************)
(* The servers.  A server is described by the pages of its dashboard       *)
(* listing, the base URL the client was given and the population its       *)
(* other answers are drawn from when a call is made:                       *)
(*   "wide"    every bundle, permission set, plugin list, catalog answer   *)
(*             and datasource list below, at most one dashboard, a valid   *)
(*             base URL and -max-concurrency 1                             *)
(*   "narrow"  a 10.3 bundle and one datasource, any listing of at most    *)
(*             MaxDashboards dashboards, any base URL and any value of     *)
(*             -max-concurrency from -1 to MaxConcurrencyFlag              *)
(* Any call may also fail.                                                 *)
(***************************************************************************)
Failure == "failure"

Markers ==
    {Marker("nil", "nil"), Marker("nil", "true"), Marker("nil", "false"),
     Marker("true", "nil"), Marker("false", "true")}

PanelMarkerMaps ==
    UNION {[S -> Markers] : S \in SUBSET {"angular-panel", "text"}}

DatasourceEntryMaps ==
    {[n \in {} |-> FrontendSettingsDatasource("", Marker("nil", "nil"))]}
    \cup {[n \in {"akumuli"} |-> FrontendSettingsDatasource(t, m)] :
            t \in {"akumuli-datasource", ""}, m \in Markers}
    \cup {[n \in {"akumuli", "akumuli2"} |->
            FrontendSettingsDatasource("akumuli-datasource",
                IF n = "akumuli" THEN Marker("true", "nil") ELSE Marker("false", "nil"))]}

NarrowBundle ==
    FrontendSettings(
        [k \in {"angular-panel", "text"} |->
            IF k = "angular-panel" THEN Marker("true", "nil") ELSE Marker("false", "nil")],
        [n \in {"akumuli"} |->
            FrontendSettingsDatasource("akumuli-datasource", Marker("true", "nil"))])

\* the bundles of the "periodic" population: a 10.3 bundle, a bundle that
\* no longer lists the Angular panel, and a bundle without markers
TextOnlyBundle ==
    FrontendSettings([k \in {"text"} |-> Marker("false", "nil")],
                     [n \in {} |-> FrontendSettingsDatasource("", Marker("nil", "nil"))])

UnmarkedBundle ==
    FrontendSettings([k \in {"text"} |-> Marker("nil", "nil")],
                     [n \in {} |-> FrontendSettingsDatasource("", Marker("nil", "nil"))])

Bundles(population) ==
    IF population = "wide"
    THEN {FrontendSettings(p, d) : p \in PanelMarkerMaps, d \in DatasourceEntryMaps}
    ELSE IF population = "periodic"
    THEN {NarrowBundle, TextOnlyBundle, UnmarkedBundle}
    ELSE {NarrowBundle}

PermissionSets == SUBSET {"datasources:create", "plugins:install", "dashboards:read"}

PermissionSetsOf(population) ==
    IF population = "periodic" THEN {{"plugins:install"}, {"dashboards:read"}}
    ELSE PermissionSets

PluginEntries ==
    {Plugin(id, v) : id \in {"angular-panel", "akumuli-datasource"}, v \in {"", "1.0.0"}}

PluginLists ==
    {<< >>} \cup {<< a >> : a \in PluginEntries}
    \cup {<< a, b >> : a \in PluginEntries, b \in PluginEntries}

PluginListsOf(population) ==
    IF population = "periodic" THEN {<< Plugin("angular-panel", "1.0.0") >>}
    ELSE PluginLists

CatalogResponses ==
    {CatalogResponse("badStatus", << >>),
     CatalogResponse("error", << >>),
     CatalogResponse("ok", << >>),
     CatalogResponse("ok", << PluginVersion("1.0.0", TRUE) >>),
     CatalogResponse("ok", << PluginVersion("2.0.0", TRUE), PluginVersion("1.0.0", FALSE) >>),
     CatalogResponse("ok", << PluginVersion("0.9.0", TRUE) >>)}

CatalogResponsesOf(population) ==
    IF population = "periodic"
    THEN {CatalogResponse("error", << >>),
          CatalogResponse("ok", << PluginVersion("1.0.0", TRUE) >>)}
    ELSE CatalogResponses

DatasourceLists(population) ==
    IF population = "wide"
    THEN {<< >>,
          << Datasource("akumuli", "akumuli-datasource") >>,
          << Datasource("akumuli", "prometheus"), Datasource("akumuli", "akumuli-datasource") >>,
          << Datasource("", "akumuli-datasource"), Datasource("prom", "prometheus") >>}
    ELSE {<< Datasource("akumuli", "akumuli-datasource") >>}

\* the listing: the dashboards from..n cut into consecutive non-empty pages
RECURSIVE Pagings(_, _)
Pagings(from, n) ==
    IF from > n THEN {<< >>}
    ELSE UNION {{<< [i \in 1..(k - from + 1) |-> from + i - 1] >> \o rest :
                    rest \in Pagings(k + 1, n)} : k \in from..n}

Listings(population) ==
    UNION {Pagings(1, n) : n \in 0..(IF population = "wide" THEN 1 ELSE MaxDashboards)}

BaseURLs ==
    {BaseURLValue("http://127.0.0.1:3000", TRUE, TRUE), BaseURLValue(":", FALSE, FALSE)}

ConcurrencyFlags(population) ==
    IF population = "wide" THEN {1} ELSE (-1)..MaxConcurrencyFlag

Server(population, pages, baseURL) ==
    [population |-> population, pages |-> pages, baseURL |-> baseURL]

\* the server of a periodic detection: two dashboards on one page
PeriodicServers ==
    {Server("periodic", << << 1, 2 >> >>, BaseURLValue("http://127.0.0.1:3000", TRUE, TRUE))}

Servers ==
    {Server(pop, pages, b) :
        pop \in {"wide"}, pages \in Listings("wide"),
        b \in {BaseURLValue("http://127.0.0.1:3000", TRUE, TRUE)}}
    \cup
    {Server(pop, pages, b) :
        pop \in {"narrow"}, pages \in Listings("narrow"), b \in BaseURLs}

\* the bodies a dashboards/uid/<uid> request may return
DashboardBodies == {"clean", "angular", "malformed", "badtype"}

DashboardBodiesOf(population) ==
    IF population = "periodic" THEN {"clean", "angular"} ELSE DashboardBodies

BodyPanels(body) ==
    IF body = "clean"
    THEN << DashboardPanel("text", "Notes", DsNil, << >>) >>
    ELSE IF body = "angular"
    THEN << DashboardPanel("angular-panel", "Panel one", DsStr("akumuli"), << >>),
            DashboardPanel("row", "Row", DsNil,
                << DashboardPanel(pluginIDGraphOld, "Flot graph",
                                  DsObj("akumuli-datasource"), << >>) >>) >>
    ELSE IF body = "malformed"
    THEN << DashboardPanel(pluginIDGraphOld, "Flot graph", DsNum, << >>) >>
    ELSE << DashboardPanel("text", "Notes", DsObjBadType, << >>) >>

DecodedDefinition(body, uid) ==
    DashboardDefinition(BodyPanels(body), 30, DashboardMeta(uid))

PageOf(pages, n) ==
    IF n <= Len(pages)
    THEN [i \in 1..Len(pages[n]) |-> ListedDashboard(pages[n][i])]
    ELSE << >>

\* a remote call of the main goroutine and whether it was answered with success
Call(op, pageNo, id, ok) == [op |-> op, page |-> pageNo, id |-> id, ok |-> ok]

(***************************************************************************)
(* Detector.Run.  The main goroutine is at pc; one step runs from one      *)
(* remote call (or one iteration of a map range, whose order Go leaves     *)
(* open) to the next.  Worker goroutines are per dashboard of the page.    *)
(***************************************************************************)
NoProbe == "<no entry>"

NotRun == [out |-> << >>, err |-> "not run"]

NoPermissions == [state |-> "unset", keys |-> {}]

Worker(wpc, dash, url, def, out, err) ==
    [pc |-> wpc, dash |-> dash, url |-> url, def |-> def, out |-> out, err |-> err]

NewWorker(dash) == Worker("new", dash, << >>, NoDefinition, NoDashboard, NilError)

detectorVars == << angularDetected, datasourcePluginIDs, maxConcurrency >>

resolverVars ==
    << frontendSettings, probed, useGCOM, permissions, pendingKeys, pendingPlugins,
       gcomLog >>

fanoutVars == << page, dashboards, spawned, workers, semaphore, mu, wg, downloadErrors >>

harnessVars == << cpKind, cpStage, cpRaw, cpDef, cpOwn, cpAll, cpAgain >>

mainVars ==
    << mainPc, ctxDone, tick, consumerPc, consumerData, outputData, ready, runs,
       detectorRuns, okRuns, stores, httpLog >>

vars ==
    << angularDetected, datasourcePluginIDs, maxConcurrency, server, pc,
       frontendSettings, probed, useGCOM, permissions, pendingKeys, pendingPlugins,
       gcomLog, page, dashboards, spawned, workers, semaphore, mu, wg, downloadErrors,
       finalOutput, ret, calls, fetchLog,
       cpKind, cpStage, cpRaw, cpDef, cpOwn, cpAll, cpAgain,
       mainPc, ctxDone, tick, consumerPc, consumerData, outputData, ready, runs,
       detectorRuns >>

NoReturn == [out |-> << >>, err |-> Error("running")]

\* return out, err
Return(out, err) ==
    /\ pc' = "done"
    /\ ret' = [out |-> out, err |-> err]

\* the state NewDetector leaves, before Run is called
NewDetector(concurrency) ==
    /\ angularDetected = EmptyMap
    /\ datasourcePluginIDs = [n \in {} |-> ""]
    /\ maxConcurrency = concurrency
    /\ frontendSettings = NoFrontendSettings
    /\ probed = NoProbe
    /\ useGCOM = FALSE
    /\ permissions = NoPermissions
    /\ pendingKeys = {}
    /\ pendingPlugins = << >>
    /\ gcomLog = << >>
    /\ page = 0
    /\ dashboards = << >>
    /\ spawned = 0
    /\ workers = << >>
    /\ semaphore = {}
    /\ mu = 0
    /\ wg = 0
    /\ downloadErrors = << >>
    /\ finalOutput = << >>
    /\ ret = NoReturn
    /\ calls = << >>
    /\ fetchLog = [u \in 1..(MaxDashboards + 1) |-> "none"]

HarnessOff ==
    /\ cpKind = "off"
    /\ cpStage = "off"
    /\ cpRaw = NoDefinition
    /\ cpDef = NoDefinition
    /\ cpOwn = NotRun
    /\ cpAll = NotRun
    /\ cpAgain = NotRun

\* Run is called once on a new Detector, without main around it
MainOff ==
    /\ mainPc = "off"
    /\ ctxDone = FALSE
    /\ tick = FALSE
    /\ consumerPc = "off"
    /\ consumerData = << >>
    /\ outputData = << >>
    /\ ready = FALSE
    /\ runs = 1
    /\ detectorRuns = 1
    /\ okRuns = 0
    /\ stores = 0
    /\ httpLog = << >>

\* entering the direct classification loops: range over Panels, then over
\* Datasources, then on to the datasource list
EnterPanels(fs) ==
    IF DOMAIN fs.Panels # {}
    THEN pc' = "panels" /\ pendingKeys' = DOMAIN fs.Panels
    ELSE IF DOMAIN fs.Datasources # {}
    THEN pc' = "dsmeta" /\ pendingKeys' = DOMAIN fs.Datasources
    ELSE pc' = "datasources" /\ pendingKeys' = {}

\* GetFrontendSettings and the probe of one panel entry
GetFrontendSettings ==
    /\ pc = "start"
    /\ \/ /\ calls' = Append(calls, Call("GetFrontendSettings", 0, "", FALSE))
          /\ Return(<< >>, Error("get frontend settings"))
          /\ UNCHANGED << frontendSettings, probed, useGCOM, pendingKeys >>
       \/ \E resp \in Bundles(server.population) :
             /\ ~ctxDone
             /\ calls' = Append(calls, Call("GetFrontendSettings", 0, "", TRUE))
             /\ frontendSettings' = resp
             /\ IF DOMAIN resp.Panels = {}
                THEN /\ probed' = NoProbe
                     /\ useGCOM' = FALSE
                ELSE \E k \in DOMAIN resp.Panels :
                        /\ probed' = k
                        /\ useGCOM' = ProbeUseGCOM(resp.Panels[k])
             /\ IF useGCOM'
                THEN pc' = "permissions" /\ UNCHANGED pendingKeys
                ELSE EnterPanels(resp)
             /\ UNCHANGED ret
    /\ UNCHANGED << detectorVars, server, permissions, pendingPlugins, gcomLog, fanoutVars,
                    finalOutput, fetchLog, harnessVars, mainVars >>

\* the privilege check with || in place of &&
MissingAdminPermission_Either(perms) ==
    LET hasDsCreate == "datasources:create" \in perms
        hasPluginsInstall == "plugins:install" \in perms
    IN  ~hasDsCreate \/ ~hasPluginsInstall

\* !hasDsCreate && !hasPluginsInstall, perms being the keys of the map
MissingAdminPermission(perms) ==
    LET hasDsCreate == "datasources:create" \in perms
        hasPluginsInstall == "plugins:install" \in perms
    IN  ~hasDsCreate /\ ~hasPluginsInstall

\* GetServiceAccountPermissions and the privilege check
GetServiceAccountPermissions ==
    /\ pc = "permissions"
    /\ \/ /\ calls' = Append(calls, Call("GetServiceAccountPermissions", 0, "", FALSE))
          /\ permissions' = [state |-> "err", keys |-> {}]
          /\ pc' = "plugins"
          /\ UNCHANGED ret
       \/ \E resp \in PermissionSetsOf(server.population) :
             /\ ~ctxDone
             /\ calls' = Append(calls, Call("GetServiceAccountPermissions", 0, "", TRUE))
             /\ permissions' = [state |-> "ok", keys |-> resp]
             /\ IF MissingAdminPermission(resp)
                THEN Return(<< >>, Error("privilege"))
                ELSE pc' = "plugins" /\ UNCHANGED ret
    /\ UNCHANGED << detectorVars, server, frontendSettings, probed, useGCOM,
                    pendingKeys, pendingPlugins, gcomLog, fanoutVars, finalOutput,
                    fetchLog,
                    harnessVars, mainVars >>

\* GetPlugins
GetPlugins ==
    /\ pc = "plugins"
    /\ \/ /\ calls' = Append(calls, Call("GetPlugins", 0, "", FALSE))
          /\ Return(<< >>, Error("get plugins"))
          /\ UNCHANGED pendingPlugins
       \/ \E resp \in PluginListsOf(server.population) :
             /\ ~ctxDone
             /\ calls' = Append(calls, Call("GetPlugins", 0, "", TRUE))
             /\ pendingPlugins' = resp
             /\ pc' = "gcom"
             /\ UNCHANGED ret
    /\ UNCHANGED << detectorVars, server, frontendSettings, probed, useGCOM,
                    permissions, pendingKeys, gcomLog, fanoutVars, finalOutput,
                    fetchLog, harnessVars, mainVars >>

\* a visited plugin with the catalog's answer for it; no request is made
\* for a plugin without version
NoCatalogRequest == CatalogResponse("none", << >>)

GcomVisit(p, resp) == [plugin |-> p, resp |-> resp]

\* one iteration of the loop over the installed plugins
GcomPlugin ==
    /\ pc = "gcom"
    /\ pendingPlugins # << >>
    /\ LET p == Head(pendingPlugins)
       IN  IF p.Version = ""
           THEN /\ gcomLog' = Append(gcomLog, GcomVisit(p, NoCatalogRequest))
                /\ UNCHANGED << angularDetected, ret, pc, calls >>
           ELSE \E resp \in {c \in CatalogResponsesOf(server.population) :
                                ctxDone => c.status = "error"} :
                    LET r == GetAngularDetected(resp, p.Version)
                    IN  /\ calls' = Append(calls, Call("GetAngularDetected", 0, p.ID,
                                                       resp.status = "ok"))
                        /\ gcomLog' = Append(gcomLog, GcomVisit(p, resp))
                        /\ angularDetected' = MapPut(angularDetected, p.ID, r.v)
                        /\ IF r.err # NoErr
                           THEN Return(<< >>, Error("get angular detected"))
                           ELSE UNCHANGED << pc, ret >>
    /\ pendingPlugins' = Tail(pendingPlugins)
    /\ UNCHANGED << datasourcePluginIDs, maxConcurrency, server, frontendSettings,
                    probed, useGCOM, permissions, pendingKeys, fanoutVars,
                    finalOutput, fetchLog, harnessVars, mainVars >>

\* the loop over the installed plugins is over
GcomDone ==
    /\ pc = "gcom"
    /\ pendingPlugins = << >>
    /\ pc' = "datasources"
    /\ UNCHANGED << detectorVars, server, resolverVars, fanoutVars, finalOutput,
                    ret, calls, fetchLog, harnessVars, mainVars >>

\* one iteration of range frontendSettings.Panels
IsAngularPanel ==
    /\ pc = "panels"
    /\ \E pluginID \in pendingKeys :
        LET r == FrontendSettingsPanel_IsAngular(frontendSettings.Panels[pluginID])
        IN  IF r.err # NoErr
            THEN /\ Return(<< >>, Error("is angular"))
                 /\ UNCHANGED << angularDetected, pendingKeys >>
            ELSE /\ angularDetected' = MapPut(angularDetected, pluginID, r.v)
                 /\ IF pendingKeys \ {pluginID} # {}
                    THEN pc' = "panels" /\ pendingKeys' = pendingKeys \ {pluginID}
                    ELSE IF DOMAIN frontendSettings.Datasources # {}
                    THEN pc' = "dsmeta" /\ pendingKeys' = DOMAIN frontendSettings.Datasources
                    ELSE pc' = "datasources" /\ pendingKeys' = {}
                 /\ UNCHANGED ret
    /\ UNCHANGED << datasourcePluginIDs, maxConcurrency, server, frontendSettings,
                    probed, useGCOM, permissions, pendingPlugins, gcomLog, fanoutVars,
                    finalOutput, calls, fetchLog, harnessVars, mainVars >>

\* one iteration of range frontendSettings.Datasources
IsAngularDatasource ==
    /\ pc = "dsmeta"
    /\ \E name \in pendingKeys :
        LET ds == frontendSettings.Datasources[name]
            r == FrontendSettingsDatasource_IsAngular(ds)
        IN  IF r.err # NoErr
            THEN /\ Return(<< >>, Error("is angular"))
                 /\ UNCHANGED << angularDetected, pendingKeys >>
            ELSE /\ angularDetected' = MapPut(angularDetected, ds.Type, r.v)
                 /\ pendingKeys' = pendingKeys \ {name}
                 /\ pc' = IF pendingKeys' # {} THEN "dsmeta" ELSE "datasources"
                 /\ UNCHANGED ret
    /\ UNCHANGED << datasourcePluginIDs, maxConcurrency, server, frontendSettings,
                    probed, useGCOM, permissions, pendingPlugins, gcomLog, fanoutVars,
                    finalOutput, calls, fetchLog, harnessVars, mainVars >>

\* GetDatasourcePluginIDs going on to the listing after a failed request
GetDatasourcePluginIDs_FailureContinues ==
    /\ pc = "datasources"
    /\ \/ /\ calls' = Append(calls, Call("GetDatasourcePluginIDs", 0, "", FALSE))
          /\ pc' = "list"
          /\ UNCHANGED << ret, datasourcePluginIDs, frontendSettings, permissions,
                          gcomLog >>
       \/ \E resp \in DatasourceLists(server.population) :
             /\ ~ctxDone
             /\ calls' = Append(calls, Call("GetDatasourcePluginIDs", 0, "", TRUE))
             /\ datasourcePluginIDs' = DatasourceMap(resp, 1, [n \in {} |-> ""])
             /\ frontendSettings' = NoFrontendSettings
             /\ permissions' = NoPermissions
             /\ gcomLog' = << >>
             /\ pc' = "list"
             /\ UNCHANGED ret
    /\ UNCHANGED << angularDetected, maxConcurrency, server, probed, useGCOM,
                    pendingKeys, pendingPlugins, fanoutVars, finalOutput, fetchLog,
                    harnessVars, mainVars >>

\* GetDatasourcePluginIDs and the construction of the name map; the bundle,
\* the permission set and the plugin list are not read after this point
GetDatasourcePluginIDs ==
    /\ pc = "datasources"
    /\ \/ /\ calls' = Append(calls, Call("GetDatasourcePluginIDs", 0, "", FALSE))
          /\ Return(<< >>, Error("get datasource plugin ids"))
          /\ UNCHANGED << datasourcePluginIDs, frontendSettings, permissions, gcomLog >>
       \/ \E resp \in DatasourceLists(server.population) :
             /\ ~ctxDone
             /\ calls' = Append(calls, Call("GetDatasourcePluginIDs", 0, "", TRUE))
             /\ datasourcePluginIDs' = DatasourceMap(resp, 1, [n \in {} |-> ""])
             /\ frontendSettings' = NoFrontendSettings
             /\ permissions' = NoPermissions
             /\ gcomLog' = << >>
             /\ pc' = "list"
             /\ UNCHANGED ret
    /\ UNCHANGED << angularDetected, maxConcurrency, server, probed, useGCOM,
                    pendingKeys, pendingPlugins, fanoutVars, finalOutput, fetchLog,
                    harnessVars, mainVars >>

\* GetDashboards advancing the page number by two
GetDashboards_SkipsPage ==
    /\ pc = "list"
    /\ page' = page + 2
    /\ \/ /\ calls' = Append(calls, Call("GetDashboards", page', "", FALSE))
          /\ Return(<< >>, Error("get dashboards"))
          /\ UNCHANGED << dashboards, spawned, workers, semaphore, mu, wg,
                          downloadErrors >>
       \/ /\ ~ctxDone
          /\ calls' = Append(calls, Call("GetDashboards", page', "", TRUE))
          /\ LET listed == PageOf(server.pages, page')
             IN  IF Len(listed) = 0
                 THEN /\ Return(finalOutput, NilError)
                      /\ UNCHANGED << dashboards, spawned, workers, semaphore, mu, wg,
                                      downloadErrors >>
                 ELSE /\ dashboards' = listed
                      /\ spawned' = 0
                      /\ workers' = [i \in 1..Len(listed) |-> NewWorker(listed[i])]
                      /\ semaphore' = {}
                      /\ mu' = 0
                      /\ wg' = 0
                      /\ downloadErrors' = << >>
                      \* make(chan struct{}, n) panics for n < 0
                      /\ pc' = IF maxConcurrency < 0 THEN "crashed" ELSE "fanout"
                      /\ UNCHANGED ret
    /\ UNCHANGED << detectorVars, server, resolverVars, finalOutput, fetchLog,
                    harnessVars, mainVars >>

\* GetDashboards taking a failed listing call for the end of the listing
GetDashboards_FailureEndsListing ==
    /\ pc = "list"
    /\ page' = page + 1
    /\ \/ /\ calls' = Append(calls, Call("GetDashboards", page', "", FALSE))
          /\ Return(finalOutput, NilError)
          /\ UNCHANGED << dashboards, spawned, workers, semaphore, mu, wg,
                          downloadErrors >>
       \/ /\ ~ctxDone
          /\ calls' = Append(calls, Call("GetDashboards", page', "", TRUE))
          /\ LET listed == PageOf(server.pages, page')
             IN  IF Len(listed) = 0
                 THEN /\ Return(finalOutput, NilError)
                      /\ UNCHANGED << dashboards, spawned, workers, semaphore, mu, wg,
                                      downloadErrors >>
                 ELSE /\ dashboards' = listed
                      /\ spawned' = 0
                      /\ workers' = [i \in 1..Len(listed) |-> NewWorker(listed[i])]
                      /\ semaphore' = {}
                      /\ mu' = 0
                      /\ wg' = 0
                      /\ downloadErrors' = << >>
                      \* make(chan struct{}, n) panics for n < 0
                      /\ pc' = IF maxConcurrency < 0 THEN "crashed" ELSE "fanout"
                      /\ UNCHANGED ret
    /\ UNCHANGED << detectorVars, server, resolverVars, finalOutput, fetchLog,
                    harnessVars, mainVars >>

\* GetDashboards returning the entries of the earlier pages with its error
GetDashboards_FailureKeepsEntries ==
    /\ pc = "list"
    /\ page' = page + 1
    /\ \/ /\ calls' = Append(calls, Call("GetDashboards", page', "", FALSE))
          /\ Return(finalOutput, Error("get dashboards"))
          /\ UNCHANGED << dashboards, spawned, workers, semaphore, mu, wg,
                          downloadErrors >>
       \/ /\ ~ctxDone
          /\ calls' = Append(calls, Call("GetDashboards", page', "", TRUE))
          /\ LET listed == PageOf(server.pages, page')
             IN  IF Len(listed) = 0
                 THEN /\ Return(finalOutput, NilError)
                      /\ UNCHANGED << dashboards, spawned, workers, semaphore, mu, wg,
                                      downloadErrors >>
                 ELSE /\ dashboards' = listed
                      /\ spawned' = 0
                      /\ workers' = [i \in 1..Len(listed) |-> NewWorker(listed[i])]
                      /\ semaphore' = {}
                      /\ mu' = 0
                      /\ wg' = 0
                      /\ downloadErrors' = << >>
                      \* make(chan struct{}, n) panics for n < 0
                      /\ pc' = IF maxConcurrency < 0 THEN "crashed" ELSE "fanout"
                      /\ UNCHANGED ret
    /\ UNCHANGED << detectorVars, server, resolverVars, finalOutput, fetchLog,
                    harnessVars, mainVars >>

\* page += 1, GetDashboards, and for a non-empty page the creation of the
\* semaphore, the wait group, the mutex and the error list
GetDashboards ==
    /\ pc = "list"
    /\ page' = page + 1
    /\ \/ /\ calls' = Append(calls, Call("GetDashboards", page', "", FALSE))
          /\ Return(<< >>, Error("get dashboards"))
          /\ UNCHANGED << dashboards, spawned, workers, semaphore, mu, wg,
                          downloadErrors >>
       \/ /\ ~ctxDone
          /\ calls' = Append(calls, Call("GetDashboards", page', "", TRUE))
          /\ LET listed == PageOf(server.pages, page')
             IN  IF Len(listed) = 0
                 THEN /\ Return(finalOutput, NilError)
                      /\ UNCHANGED << dashboards, spawned, workers, semaphore, mu, wg,
                                      downloadErrors >>
                 ELSE /\ dashboards' = listed
                      /\ spawned' = 0
                      /\ workers' = [i \in 1..Len(listed) |-> NewWorker(listed[i])]
                      /\ semaphore' = {}
                      /\ mu' = 0
                      /\ wg' = 0
                      /\ downloadErrors' = << >>
                      \* make(chan struct{}, n) panics for n < 0
                      /\ pc' = IF maxConcurrency < 0 THEN "crashed" ELSE "fanout"
                      /\ UNCHANGED ret
    /\ UNCHANGED << detectorVars, server, resolverVars, finalOutput, fetchLog,
                    harnessVars, mainVars >>

\* wg.Add(1); go func(dash) {...}(dash)
Spawn ==
    /\ pc = "fanout"
    /\ spawned < Len(dashboards)
    /\ spawned' = spawned + 1
    /\ wg' = wg + 1
    /\ workers' = [workers EXCEPT ![spawned + 1].pc = "acquire"]
    /\ UNCHANGED << detectorVars, server, pc, resolverVars, page, dashboards,
                    semaphore, mu, downloadErrors, finalOutput, ret, calls, fetchLog,
                    harnessVars, mainVars >>

\* the acquire letting a worker in while the semaphore is already full
Acquire_OneTooMany(i) ==
    /\ pc = "fanout"
    /\ workers[i].pc = "acquire"
    /\ Cardinality(semaphore) <= maxConcurrency
    /\ semaphore' = semaphore \cup {i}
    /\ workers' = [workers EXCEPT ![i].pc = "fetch"]
    /\ UNCHANGED << detectorVars, server, pc, resolverVars, page, dashboards, spawned,
                    mu, wg, downloadErrors, finalOutput, ret, calls, fetchLog,
                    harnessVars, mainVars >>

\* semaphore <- struct{}{}
Acquire(i) ==
    /\ pc = "fanout"
    /\ workers[i].pc = "acquire"
    /\ Cardinality(semaphore) < maxConcurrency
    /\ semaphore' = semaphore \cup {i}
    /\ workers' = [workers EXCEPT ![i].pc = "fetch"]
    /\ UNCHANGED << detectorVars, server, pc, resolverVars, page, dashboards, spawned,
                    mu, wg, downloadErrors, finalOutput, ret, calls, fetchLog,
                    harnessVars, mainVars >>

\* the absolute URL and GetDashboard (request, then ConvertPanels)
Fetch(i) ==
    /\ pc = "fanout"
    /\ workers[i].pc = "fetch"
    /\ LET dash == workers[i].dash
           url == DashboardAbsURL(server.baseURL, dash)
       IN  \E resp \in {Failure} \cup (IF ctxDone THEN {} ELSE DashboardBodiesOf(server.population)) :
            /\ fetchLog' = [fetchLog EXCEPT ![dash.UID] = resp]
            /\ IF resp = Failure
               THEN /\ workers' = [workers EXCEPT
                          ![i] = Worker("lockErr", dash, url, NoDefinition, NoDashboard,
                                        [kind |-> "get dashboard", errors |-> << dash.UID >>])]
                    /\ UNCHANGED pc
               ELSE LET decoded == DecodedDefinition(resp, dash.UID)
                    IN  IF ConvertPanelsPanics(decoded.Dashboard.Panels)
                        THEN pc' = "crashed" /\ UNCHANGED workers
                        ELSE /\ workers' = [workers EXCEPT
                                   ![i] = Worker("check", dash, url,
                                       DashboardDefinition(
                                           ConvertPanels(decoded.Dashboard.Panels),
                                           decoded.Dashboard.SchemaVersion, decoded.Meta),
                                       NoDashboard, NilError)]
                             /\ UNCHANGED pc
    /\ UNCHANGED << detectorVars, server, resolverVars, page, dashboards, spawned,
                    semaphore, mu, wg, downloadErrors, finalOutput, ret, calls,
                    harnessVars, mainVars >>

\* the output.Dashboard literal and checkPanels
Check(i) ==
    /\ pc = "fanout"
    /\ workers[i].pc = "check"
    /\ LET w == workers[i]
           r == checkPanels(w.def, w.def.Dashboard.Panels)
       IN  workers' = [workers EXCEPT ![i] =
                IF r.err # NoErr
                THEN Worker("lockErr", w.dash, w.url, w.def, NoDashboard,
                            [kind |-> "check panels", errors |-> << r.err >>])
                ELSE Worker("lockOut", w.dash, w.url, w.def,
                            Dashboard(w.url, w.dash, w.def, r.out), NilError)]
    /\ UNCHANGED << detectorVars, server, pc, resolverVars, page, dashboards, spawned,
                    semaphore, mu, wg, downloadErrors, finalOutput, ret, calls,
                    fetchLog, harnessVars, mainVars >>

\* Lock succeeding while another worker holds the mutex
Lock_NoExclusion(i) ==
    /\ pc = "fanout"
    /\ workers[i].pc \in {"lockErr", "lockOut"}
    /\ mu' = i
    /\ workers' = [workers EXCEPT
            ![i].pc = IF workers[i].pc = "lockErr" THEN "appendErr" ELSE "appendOut"]
    /\ UNCHANGED << detectorVars, server, pc, resolverVars, page, dashboards, spawned,
                    semaphore, wg, downloadErrors, finalOutput, ret, calls, fetchLog,
                    harnessVars, mainVars >>

\* mu.Lock()
Lock(i) ==
    /\ pc = "fanout"
    /\ workers[i].pc \in {"lockErr", "lockOut"}
    /\ mu = 0
    /\ mu' = i
    /\ workers' = [workers EXCEPT
            ![i].pc = IF workers[i].pc = "lockErr" THEN "appendErr" ELSE "appendOut"]
    /\ UNCHANGED << detectorVars, server, pc, resolverVars, page, dashboards, spawned,
                    semaphore, wg, downloadErrors, finalOutput, ret, calls, fetchLog,
                    harnessVars, mainVars >>

\* AppendError unlocking without the append
AppendError_Skips(i) ==
    /\ pc = "fanout"
    /\ workers[i].pc = "appendErr"
    /\ downloadErrors' = downloadErrors
    /\ mu' = 0
    /\ workers' = [workers EXCEPT ![i].pc = "release"]
    /\ UNCHANGED << detectorVars, server, pc, resolverVars, page, dashboards, spawned,
                    semaphore, wg, finalOutput, ret, calls, fetchLog, harnessVars, mainVars >>

\* downloadErrors = append(downloadErrors, err); mu.Unlock(); return
AppendError(i) ==
    /\ pc = "fanout"
    /\ workers[i].pc = "appendErr"
    /\ downloadErrors' = Append(downloadErrors, workers[i].err)
    /\ mu' = 0
    /\ workers' = [workers EXCEPT ![i].pc = "release"]
    /\ UNCHANGED << detectorVars, server, pc, resolverVars, page, dashboards, spawned,
                    semaphore, wg, finalOutput, ret, calls, fetchLog, harnessVars, mainVars >>

\* AppendOutput keeping only dashboards that have detections
AppendOutput_OnlyWithDetections(i) ==
    /\ pc = "fanout"
    /\ workers[i].pc = "appendOut"
    /\ finalOutput' = IF workers[i].out.Detections = << >> THEN finalOutput
                      ELSE Append(finalOutput, workers[i].out)
    /\ mu' = 0
    /\ workers' = [workers EXCEPT ![i].pc = "release"]
    /\ UNCHANGED << detectorVars, server, pc, resolverVars, page, dashboards, spawned,
                    semaphore, wg, downloadErrors, ret, calls, fetchLog, harnessVars, mainVars >>

\* AppendOutput losing the entry when another worker waits for the mutex
AppendOutput_LostWhenContended(i) ==
    /\ pc = "fanout"
    /\ workers[i].pc = "appendOut"
    /\ finalOutput' =
          IF \E j \in 1..Len(workers) : workers[j].pc \in {"lockErr", "lockOut"}
          THEN finalOutput
          ELSE Append(finalOutput, workers[i].out)
    /\ mu' = 0
    /\ workers' = [workers EXCEPT ![i].pc = "release"]
    /\ UNCHANGED << detectorVars, server, pc, resolverVars, page, dashboards, spawned,
                    semaphore, wg, downloadErrors, ret, calls, fetchLog, harnessVars, mainVars >>

\* finalOutput = append(finalOutput, dashboardOutput); mu.Unlock()
AppendOutput(i) ==
    /\ pc = "fanout"
    /\ workers[i].pc = "appendOut"
    /\ finalOutput' = Append(finalOutput, workers[i].out)
    /\ mu' = 0
    /\ workers' = [workers EXCEPT ![i].pc = "release"]
    /\ UNCHANGED << detectorVars, server, pc, resolverVars, page, dashboards, spawned,
                    semaphore, wg, downloadErrors, ret, calls, fetchLog, harnessVars, mainVars >>

\* the deferred calls: <-semaphore, then wg.Done()
Release(i) ==
    /\ pc = "fanout"
    /\ workers[i].pc = "release"
    /\ semaphore' = semaphore \ {i}
    /\ wg' = wg - 1
    /\ workers' = [workers EXCEPT ![i].pc = "done"]
    /\ UNCHANGED << detectorVars, server, pc, resolverVars, page, dashboards, spawned,
                    mu, downloadErrors, finalOutput, ret, calls, fetchLog, harnessVars, mainVars >>

\* Wait returning an empty slice with the aggregate error, as the other
\* error returns of Run do
Wait_DropsOutput ==
    /\ pc = "fanout"
    /\ spawned = Len(dashboards)
    /\ wg = 0
    /\ IF Len(downloadErrors) > 0
       THEN Return(<< >>,
                   [kind |-> "errors occurred during dashboard download",
                    errors |-> downloadErrors])
       ELSE pc' = "list" /\ UNCHANGED ret
    /\ UNCHANGED << detectorVars, server, resolverVars, fanoutVars, finalOutput,
                    calls, fetchLog, harnessVars, mainVars >>

\* Wait returning while one worker task has not called wg.Done
Wait_OneTaskEarly ==
    /\ pc = "fanout"
    /\ spawned = Len(dashboards)
    /\ wg <= 1
    /\ IF Len(downloadErrors) > 0
       THEN Return(finalOutput,
                   [kind |-> "errors occurred during dashboard download",
                    errors |-> downloadErrors])
       ELSE pc' = "list" /\ UNCHANGED ret
    /\ UNCHANGED << detectorVars, server, resolverVars, fanoutVars, finalOutput,
                    calls, fetchLog, harnessVars, mainVars >>

\* wg.Wait() returns; the collected errors end the run
Wait ==
    /\ pc = "fanout"
    /\ spawned = Len(dashboards)
    /\ wg = 0
    /\ IF Len(downloadErrors) > 0
       THEN Return(finalOutput,
                   [kind |-> "errors occurred during dashboard download",
                    errors |-> downloadErrors])
       ELSE pc' = "list" /\ UNCHANGED ret
    /\ UNCHANGED << detectorVars, server, resolverVars, fanoutVars, finalOutput,
                    calls, fetchLog, harnessVars, mainVars >>

WorkerStep ==
    \E i \in 1..Len(workers) :
        \/ Acquire(i)
        \/ Fetch(i)
        \/ Check(i)
        \/ Lock(i)
        \/ AppendError(i)
        \/ AppendOutput(i)
        \/ Release(i)

Init ==
    /\ server \in Servers
    /\ \E n \in ConcurrencyFlags(server.population) : NewDetector(n)
    /\ pc = "start"
    /\ HarnessOff
    /\ MainOff

Next ==
    \/ GetFrontendSettings
    \/ GetServiceAccountPermissions
    \/ GetPlugins
    \/ GcomPlugin
    \/ GcomDone
    \/ IsAngularPanel
    \/ IsAngularDatasource
    \/ GetDatasourcePluginIDs
    \/ GetDashboards
    \/ Spawn
    \/ WorkerStep
    \/ Wait

Spec == Init /\ [][Next]_vars

(***************************************************************************)
(* The callers of Detector.Run.  main (periodic detection) builds a new    *)
(* Detector for every run, hands the result of a run without error to the  *)
(* goroutine that stores it, and then waits for the ticker or for the       *)
(* cancellation of its context.  The other caller calls Run again on the   *)
(* Detector it already has.                                                *)
(***************************************************************************)
\* largest number of runs
MaxRuns == 2

\* the locals of Run at its entry
EnterRun ==
    /\ pc' = "start"
    /\ frontendSettings' = NoFrontendSettings
    /\ probed' = NoProbe
    /\ useGCOM' = FALSE
    /\ permissions' = NoPermissions
    /\ pendingKeys' = {}
    /\ pendingPlugins' = << >>
    /\ gcomLog' = << >>
    /\ page' = 0
    /\ dashboards' = << >>
    /\ spawned' = 0
    /\ workers' = << >>
    /\ semaphore' = {}
    /\ mu' = 0
    /\ wg' = 0
    /\ downloadErrors' = << >>
    /\ finalOutput' = << >>
    /\ ret' = NoReturn
    /\ calls' = << >>
    /\ fetchLog' = [u \in 1..(MaxDashboards + 1) |-> "none"]

\* d.Run(ctx) once more on the same Detector
RunAgain ==
    /\ mainPc = "off"
    /\ pc = "done"
    /\ runs < MaxRuns
    /\ EnterRun
    /\ runs' = runs + 1
    /\ detectorRuns' = detectorRuns + 1
    /\ UNCHANGED << detectorVars, server, harnessVars, mainPc, ctxDone, tick,
                    consumerPc, consumerData, outputData, ready,
                    okRuns, stores, httpLog >>

\* runDetection after d.Run returned: an error is logged and nothing is
\* sent, otherwise finalOutput goes to outputChan
runDetectionReturn ==
    /\ mainPc = "run"
    /\ pc = "done"
    /\ mainPc' = IF ret.err # NilError THEN "select" ELSE "send"
    /\ okRuns' = IF ret.err = NilError THEN okRuns + 1 ELSE okRuns
    /\ UNCHANGED << detectorVars, server, pc, resolverVars, fanoutVars, finalOutput,
                    ret, calls, fetchLog, harnessVars, ctxDone, tick, consumerPc,
                    consumerData, outputData, ready, runs, detectorRuns,
                    stores, httpLog >>

\* outputChan <- finalOutput meets the receive of the range loop (the
\* channel has no buffer); runDetection returns
SendOutput ==
    /\ mainPc = "send"
    /\ consumerPc = "range"
    /\ consumerData' = ret.out
    /\ consumerPc' = "store"
    /\ mainPc' = "select"
    /\ UNCHANGED << detectorVars, server, pc, resolverVars, fanoutVars, finalOutput,
                    ret, calls, fetchLog, harnessVars, ctxDone, tick, outputData,
                    ready, runs, detectorRuns,
                    okRuns, stores, httpLog >>

\* output.data = data between output.mu.Lock() and Unlock()
StoreOutput ==
    /\ consumerPc = "store"
    /\ outputData' = consumerData
    /\ stores' = stores + 1
    /\ consumerPc' = "once"
    /\ UNCHANGED << detectorVars, server, pc, resolverVars, fanoutVars, finalOutput,
                    ret, calls, fetchLog, harnessVars, mainPc, ctxDone, tick,
                    consumerData, ready, runs, detectorRuns, okRuns, httpLog >>

\* once.Do(func() { ready.Store(true) }); the range loop receives again
SetReady ==
    /\ consumerPc = "once"
    /\ ready' = TRUE
    /\ consumerPc' = "range"
    /\ UNCHANGED << detectorVars, server, pc, resolverVars, fanoutVars, finalOutput,
                    ret, calls, fetchLog, harnessVars, mainPc, ctxDone, tick,
                    consumerData, outputData, runs, detectorRuns, okRuns, stores,
                    httpLog >>

\* the ticker puts a tick into ticker.C, whose buffer holds one
Tick ==
    /\ mainPc \in {"run", "send", "select"}
    /\ ~tick
    /\ tick' = TRUE
    /\ UNCHANGED << detectorVars, server, pc, resolverVars, fanoutVars, finalOutput,
                    ret, calls, fetchLog, harnessVars, mainPc, ctxDone, consumerPc,
                    consumerData, outputData, ready, runs, detectorRuns,
                    okRuns, stores, httpLog >>

\* the context of main is cancelled
Cancel ==
    /\ mainPc \in {"run", "send", "select"}
    /\ ~ctxDone
    /\ ctxDone' = TRUE
    /\ UNCHANGED << detectorVars, server, pc, resolverVars, fanoutVars, finalOutput,
                    ret, calls, fetchLog, harnessVars, mainPc, tick, consumerPc,
                    consumerData, outputData, ready, runs, detectorRuns,
                    okRuns, stores, httpLog >>

\* select, case <-ticker.C: runDetection builds a new Detector and calls Run
SelectTick ==
    /\ mainPc = "select"
    /\ tick
    /\ runs < MaxRuns
    /\ tick' = FALSE
    /\ mainPc' = "run"
    /\ angularDetected' = EmptyMap
    /\ datasourcePluginIDs' = [n \in {} |-> ""]
    /\ EnterRun
    /\ runs' = runs + 1
    /\ detectorRuns' = 1
    /\ UNCHANGED << maxConcurrency, server, harnessVars, ctxDone, consumerPc,
                    consumerData, outputData, ready,
                    okRuns, stores, httpLog >>

\* select, case <-ctx.Done(): main returns
SelectCtxDone ==
    /\ mainPc = "select"
    /\ ctxDone
    /\ mainPc' = "exited"
    /\ UNCHANGED << detectorVars, server, pc, resolverVars, fanoutVars, finalOutput,
                    ret, calls, fetchLog, harnessVars, ctxDone, tick, consumerPc,
                    consumerData, outputData, ready, runs, detectorRuns,
                    okRuns, stores, httpLog >>

\* main up to its first runDetection
InitMain ==
    /\ server \in PeriodicServers
    /\ NewDetector(1)
    /\ pc = "start"
    /\ HarnessOff
    /\ mainPc = "run"
    /\ ctxDone = FALSE
    /\ tick = FALSE
    /\ consumerPc = "range"
    /\ consumerData = << >>
    /\ outputData = << >>
    /\ ready = FALSE
    /\ runs = 1
    /\ detectorRuns = 1
    /\ okRuns = 0
    /\ stores = 0
    /\ httpLog = << >>

NextMain ==
    \/ Next
    \/ runDetectionReturn
    \/ SendOutput
    \/ StoreOutput
    \/ SetReady
    \/ Tick
    \/ Cancel
    \/ SelectTick
    \/ SelectCtxDone

SpecMain == InitMain /\ [][NextMain]_vars

\* largest number of requests the HTTP server answers
MaxRequests == 2

Methods == {"GET", "POST"}

\* the dashboards with detections, appended to a new slice
filterAngularDashboards(stored) ==
    SelectSeq(stored, LAMBDA d : Len(d.Detections) > 0)

RECURSIVE removeLoop(_, _, _)
\* the loop of removeDashboardsWithoutDetections: v[j] = v[i] on the array
\* of v itself
removeLoop(v, i, j) ==
    IF i > Len(v) THEN [array |-> v, n |-> j - 1]
    ELSE IF Len(v[i].Detections) = 0 THEN removeLoop(v, i + 1, j)
    ELSE removeLoop([v EXCEPT ![j] = v[i]], i + 1, j + 1)

\* JSONOutputter.removeDashboardsWithoutDetections: v[:j], and what the
\* caller's slice holds afterwards
removeDashboardsWithoutDetections(v) ==
    LET r == removeLoop(v, 1, 1)
    IN  [out |-> SubSeq(r.array, 1, r.n), v |-> r.array]

\* a response: status line, plain-text body or JSON body; enc.Encode writes
\* a nil slice as null
TextResponse(status, text) ==
    [status |-> status, text |-> text, null |-> FALSE, items |-> << >>]

JSONResponse(v) ==
    [status |-> 200, text |-> "", null |-> (Len(v) = 0), items |-> v]

\* an answered request, with the number of stores before it
Answered(path, method, resp) ==
    [path |-> path, method |-> method, resp |-> resp, stores |-> stores]

\* handleOutputRequest with JSONOutputter's filter on output.data itself
handleOutputRequest_FiltersInPlace ==
    /\ mainPc \in {"run", "send", "select"}
    /\ Len(httpLog) < MaxRequests
    /\ \E method \in Methods :
          IF method # "GET"
          THEN /\ httpLog' = Append(httpLog,
                      Answered("/output", method, TextResponse(405, "Method not allowed")))
               /\ UNCHANGED outputData
          ELSE LET r == removeDashboardsWithoutDetections(outputData)
               IN  /\ httpLog' = Append(httpLog,
                          Answered("/output", method, JSONResponse(r.out)))
                   /\ outputData' = r.v
    /\ UNCHANGED << detectorVars, server, pc, resolverVars, fanoutVars, finalOutput,
                    ret, calls, fetchLog, harnessVars, mainPc, ctxDone, tick,
                    consumerPc, consumerData, ready, runs, detectorRuns, okRuns,
                    stores >>

\* handleOutputRequest: under output.mu, the filtered copy of output.data is
\* encoded
handleOutputRequest ==
    /\ mainPc \in {"run", "send", "select"}
    /\ Len(httpLog) < MaxRequests
    /\ \E method \in Methods :
          IF method # "GET"
          THEN /\ httpLog' = Append(httpLog,
                      Answered("/output", method, TextResponse(405, "Method not allowed")))
               /\ UNCHANGED outputData
          ELSE /\ httpLog' = Append(httpLog,
                      Answered("/output", method,
                               JSONResponse(filterAngularDashboards(outputData))))
               /\ UNCHANGED outputData
    /\ UNCHANGED << detectorVars, server, pc, resolverVars, fanoutVars, finalOutput,
                    ret, calls, fetchLog, harnessVars, mainPc, ctxDone, tick,
                    consumerPc, consumerData, ready, runs, detectorRuns, okRuns,
                    stores >>

\* handleReadyRequest answering 200 whatever the flag says
handleReadyRequest_AlwaysReady ==
    /\ mainPc \in {"run", "send", "select"}
    /\ Len(httpLog) < MaxRequests
    /\ \E method \in Methods :
          httpLog' = Append(httpLog,
              Answered("/ready", method,
                  IF method # "GET" THEN TextResponse(405, "Method not allowed")
                  ELSE TextResponse(200, "Ready")))
    /\ UNCHANGED << detectorVars, server, pc, resolverVars, fanoutVars, finalOutput,
                    ret, calls, fetchLog, harnessVars, mainPc, ctxDone, tick,
                    consumerPc, consumerData, outputData, ready, runs, detectorRuns,
                    okRuns, stores >>

\* handleReadyRequest
handleReadyRequest ==
    /\ mainPc \in {"run", "send", "select"}
    /\ Len(httpLog) < MaxRequests
    /\ \E method \in Methods :
          httpLog' = Append(httpLog,
              Answered("/ready", method,
                  IF method # "GET" THEN TextResponse(405, "Method not allowed")
                  ELSE IF ready THEN TextResponse(200, "Ready")
                  ELSE TextResponse(503, "Not Ready")))
    /\ UNCHANGED << detectorVars, server, pc, resolverVars, fanoutVars, finalOutput,
                    ret, calls, fetchLog, harnessVars, mainPc, ctxDone, tick,
                    consumerPc, consumerData, outputData, ready, runs, detectorRuns,
                    okRuns, stores >>

\* main in server mode, with the HTTP server answering requests; nothing in
\* main cancels the context before main returns
NextServer ==
    \/ Next
    \/ runDetectionReturn
    \/ SendOutput
    \/ StoreOutput
    \/ SetReady
    \/ Tick
    \/ SelectTick
    \/ handleOutputRequest
    \/ handleReadyRequest

\* the server of the server-mode runs: two dashboards on two pages
ServerModeServers ==
    {Server("periodic", << << 1 >>, << 2 >> >>,
            BaseURLValue("http://127.0.0.1:3000", TRUE, TRUE))}

InitServer ==
    /\ server \in ServerModeServers
    /\ NewDetector(1)
    /\ pc = "start"
    /\ HarnessOff
    /\ mainPc = "run"
    /\ ctxDone = FALSE
    /\ tick = FALSE
    /\ consumerPc = "range"
    /\ consumerData = << >>
    /\ outputData = << >>
    /\ ready = FALSE
    /\ runs = 1
    /\ detectorRuns = 1
    /\ okRuns = 0
    /\ stores = 0
    /\ httpLog = << >>

SpecServer == InitServer /\ [][NextServer]_vars

\* the steps of main and of its goroutines; the ticker and the cancellation
\* belong to the environment
MainStep ==
    \/ Next
    \/ runDetectionReturn
    \/ SendOutput
    \/ StoreOutput
    \/ SetReady
    \/ SelectTick
    \/ SelectCtxDone

\* every goroutine keeps running, and select picks among its ready cases at
\* random, so a case that is ready again and again is taken at some time
SpecMainFair == SpecMain /\ WF_vars(MainStep) /\ SF_vars(SelectCtxDone)

\* one Run for every accepted value of -max-concurrency from 0 up, against a
\* server that answers every request; the goroutines of Run keep running
TerminationServers ==
    {Server("periodic", pages, BaseURLValue("http://127.0.0.1:3000", TRUE, TRUE)) :
        pages \in Listings("periodic")}

InitTermination ==
    /\ server \in TerminationServers
    /\ \E n \in 0..MaxConcurrencyFlag : NewDetector(n)
    /\ pc = "start"
    /\ HarnessOff
    /\ MainOff

SpecTermination == InitTermination /\ [][Next]_vars /\ WF_vars(Next)

\* a caller that holds one Detector and calls Run on it repeatedly
InitReuse ==
    /\ server \in PeriodicServers
    /\ NewDetector(1)
    /\ pc = "start"
    /\ HarnessOff
    /\ MainOff

NextReuse ==
    \/ Next
    \/ RunAgain

SpecReuse == InitReuse /\ [][NextReuse]_vars

(***************************************************************************)
(* Classifier harness.  The Detector's two maps and one decoded dashboard  *)
(* definition are drawn from bounded sets; the definition is taken through *)
(* GetDashboard's ConvertPanels and then handed to checkPanel (first       *)
(* top-level panel) and to checkPanels (all top-level panels).             *)
(***************************************************************************)
\* largest number of panels in a generated panel tree
MaxNodes == 4

PanelTypes == LegacyPanelTypes \cup {pluginIDTable, "angular-panel", "text"}

Titles == {"Panel one", "Panel two"}

DsShapes ==
    {DsNil, DsStr(""), DsStr("akumuli"), DsStr("missing"),
     DsObj("akumuli-datasource"), DsObj("prometheus"),
     DsObjNoType, DsObjBadType, DsNum, DsList}

SchemaVersions == {23, 24, 30}

\* plugin ids a bundle or the catalog may classify; "" is the id of an
\* entry whose id field is missing
ClassKeys == {pluginIDTable, "angular-panel", "akumuli-datasource", ""}

AngularMaps ==
    {[k \in T1 \cup T2 |-> TRUE] :
        T1 \in SUBSET ClassKeys, T2 \in {{}, LegacyPanelTypes}}
    \cup
    {[k \in ClassKeys \cup LegacyPanelTypes \cup {"prometheus"} |-> k \in T] :
        T \in SUBSET {"angular-panel", "akumuli-datasource"}}

DsMaps ==
    {[n \in {} |-> ""],
     [n \in {"akumuli"} |-> "akumuli-datasource"],
     [n \in {"akumuli", ""} |-> "akumuli-datasource"],
     [n \in {"akumuli"} |-> "prometheus"]}

Definition(panels, schemaVersion) ==
    DashboardDefinition(panels, schemaVersion, NoMeta)

\* definitions with one childless panel, over every type, title and
\* datasource shape
SinglePanelDefinitions ==
    {Definition(<< DashboardPanel(t, ti, ds, << >>) >>, sv) :
        t \in PanelTypes, ti \in Titles, ds \in DsShapes, sv \in SchemaVersions}

\* panel trees: every ordered forest of at most MaxNodes panels, each panel
\* of one of three kinds, titled by its path from the top level
NodeKinds ==
    {<< "angular-panel", DsObj("akumuli-datasource") >>,
     << pluginIDGraphOld, DsStr("akumuli") >>,
     << "text", DsNum >>}

RECURSIVE ForestsOfSize(_)
ForestsOfSize(n) ==
    IF n = 0 THEN {<< >>}
    ELSE UNION {
            {<< DashboardPanel(kind[1], << >>, kind[2], ch) >> \o rest :
                kind \in NodeKinds,
                ch \in ForestsOfSize(j - 1),
                rest \in ForestsOfSize(n - j)} : j \in 1..n}

RECURSIVE Retitle(_, _)
Retitle(panels, prefix) ==
    [i \in 1..Len(panels) |->
        DashboardPanel(panels[i].Type, Append(prefix, i), panels[i].Datasource,
                       Retitle(panels[i].Panels, Append(prefix, i)))]

TreeDefinitions ==
    {Definition(Retitle(f, << >>), 30) :
        f \in UNION {ForestsOfSize(n) : n \in 0..MaxNodes}}

TreeAngularMaps ==
    {[k \in T |-> TRUE] : T \in SUBSET {"angular-panel", "akumuli-datasource"}}

RECURSIVE CountPanels(_)
CountPanels(panels) ==
    IF panels = << >> THEN 0
    ELSE 1 + CountPanels(Head(panels).Panels) + CountPanels(Tail(panels))

\* GetDashboard: the decoded definition goes through ConvertPanels
GetDashboardConvert ==
    /\ cpStage = "raw"
    /\ IF ConvertPanelsPanics(cpRaw.Dashboard.Panels)
       THEN /\ cpStage' = "panicked"
            /\ UNCHANGED cpDef
       ELSE /\ cpStage' = "fetched"
            /\ cpDef' = Definition(ConvertPanels(cpRaw.Dashboard.Panels),
                                   cpRaw.Dashboard.SchemaVersion)
    /\ UNCHANGED << mainVars, detectorVars, server, pc, resolverVars, fanoutVars,
                    finalOutput, ret,
                    calls, fetchLog, cpKind, cpRaw, cpOwn, cpAll, cpAgain >>

CallCheckPanel ==
    /\ cpStage = "fetched"
    /\ cpOwn = NotRun
    /\ Len(cpDef.Dashboard.Panels) > 0
    /\ cpOwn' = checkPanel(cpDef, cpDef.Dashboard.Panels[1])
    /\ UNCHANGED << mainVars, detectorVars, server, pc, resolverVars, fanoutVars,
                    finalOutput, ret,
                    calls, fetchLog, cpKind, cpStage, cpRaw, cpDef, cpAll, cpAgain >>

\* checkPanels marking the type of the first panel in the classification map
CallCheckPanels_MarksFirstType ==
    /\ cpStage = "fetched"
    /\ IF cpAll = NotRun
       THEN /\ cpAll' = checkPanels(cpDef, cpDef.Dashboard.Panels)
            /\ UNCHANGED cpAgain
       ELSE /\ cpAgain = NotRun
            /\ cpAgain' = checkPanels(cpDef, cpDef.Dashboard.Panels)
            /\ UNCHANGED cpAll
    /\ angularDetected' =
          IF Len(cpDef.Dashboard.Panels) > 0
          THEN MapPut(angularDetected, cpDef.Dashboard.Panels[1].Type, TRUE)
          ELSE angularDetected
    /\ UNCHANGED << mainVars, datasourcePluginIDs, maxConcurrency, server, pc,
                    resolverVars, fanoutVars, finalOutput, ret,
                    calls, fetchLog, cpKind, cpStage, cpRaw, cpDef, cpOwn >>

\* d.checkPanels(def, def.Dashboard.Panels), a first and a second time
CallCheckPanels ==
    /\ cpStage = "fetched"
    /\ IF cpAll = NotRun
       THEN /\ cpAll' = checkPanels(cpDef, cpDef.Dashboard.Panels)
            /\ UNCHANGED cpAgain
       ELSE /\ cpAgain = NotRun
            /\ cpAgain' = checkPanels(cpDef, cpDef.Dashboard.Panels)
            /\ UNCHANGED cpAll
    /\ UNCHANGED << mainVars, detectorVars, server, pc, resolverVars, fanoutVars,
                    finalOutput, ret,
                    calls, fetchLog, cpKind, cpStage, cpRaw, cpDef, cpOwn >>

InitClassifier ==
    /\ \/ /\ angularDetected \in AngularMaps
          /\ datasourcePluginIDs \in DsMaps
          /\ cpRaw \in SinglePanelDefinitions
          /\ cpKind = "single"
       \/ /\ angularDetected \in TreeAngularMaps
          /\ datasourcePluginIDs = [n \in {"akumuli"} |-> "akumuli-datasource"]
          /\ cpRaw \in TreeDefinitions
          /\ cpKind = "tree"
    /\ cpStage = "raw"
    /\ cpDef = cpRaw
    /\ cpOwn = NotRun
    /\ cpAll = NotRun
    /\ cpAgain = NotRun
    \* no run of the detector
    /\ maxConcurrency = 0
    /\ server = Server("none", << >>, BaseURLValue("", FALSE, FALSE))
    /\ pc = "idle"
    /\ frontendSettings = NoFrontendSettings
    /\ probed = NoProbe
    /\ useGCOM = FALSE
    /\ permissions = NoPermissions
    /\ pendingKeys = {}
    /\ pendingPlugins = << >>
    /\ gcomLog = << >>
    /\ page = 0
    /\ dashboards = << >>
    /\ spawned = 0
    /\ workers = << >>
    /\ semaphore = {}
    /\ mu = 0
    /\ wg = 0
    /\ downloadErrors = << >>
    /\ finalOutput = << >>
    /\ ret = NoReturn
    /\ calls = << >>
    /\ fetchLog = [u \in 1..(MaxDashboards + 1) |-> "none"]
    /\ mainPc = "off"
    /\ ctxDone = FALSE
    /\ tick = FALSE
    /\ consumerPc = "off"
    /\ consumerData = << >>
    /\ outputData = << >>
    /\ ready = FALSE
    /\ runs = 0
    /\ detectorRuns = 0
    /\ okRuns = 0
    /\ stores = 0
    /\ httpLog = << >>

NextClassifier ==
    \/ GetDashboardConvert
    \/ CallCheckPanel
    \/ CallCheckPanels

SpecClassifier == InitClassifier /\ [][NextClassifier]_vars

(***************************************************************************)
(* Properties of the panel classifier (checked under SpecClassifier)       *)
(***************************************************************************)
FirstPanel == cpDef.Dashboard.Panels[1]

OwnChecked == cpStage = "fetched" /\ cpOwn # NotRun

KindCount(out, kinds) ==
    Cardinality({i \in 1..Len(out) : out[i].DetectionType \in kinds})

DsDetections(out) ==
    SelectSeq(out, LAMBDA d : d.DetectionType = DetectionTypeDatasource)

PanelKinds == {"panel", "legacyPanel"}

\* the reference is absent, a string or the structured form
WellFormedDs(ds) == ds.k \in {"nil", "str", "PanelDatasource"}

\* the six types of the legacy-migratable list
ListedLegacyTypes ==
    {"graph", "table-old", "grafana-piechart-panel", "grafana-worldmap-panel",
     "grafana-singlestat-panel", "singlestat"}

LegacyOutcome(r, p) ==
    /\ r.err = NoErr
    /\ KindCount(r.out, {"legacyPanel"}) = 1
    /\ \E i \in 1..Len(r.out) : r.out[i] = Detection("legacyPanel", p.Type, p.Title)
    /\ KindCount(r.out, {"panel"}) = 0

\* C2 as stated: every panel of a listed legacy type, whatever the schema
\* version and the classification map, gets exactly one legacyPanel detection
\* with its type and title and no detection of kind panel.
C2_LegacyPrecedence_AsStated ==
    (OwnChecked /\ FirstPanel.Type \in ListedLegacyTypes)
        => LegacyOutcome(cpOwn, FirstPanel)

\* C2 amended: the same, for panels whose datasource reference is absent, a
\* string or the structured form; for any other reference checkPanel returns
\* an error and no detection.
C2_LegacyPrecedence ==
    (OwnChecked /\ FirstPanel.Type \in ListedLegacyTypes)
        => IF WellFormedDs(FirstPanel.Datasource)
           THEN LegacyOutcome(cpOwn, FirstPanel)
           ELSE cpOwn.err # NoErr /\ cpOwn.out = << >>

C2_Witness ==
    /\ OwnChecked
    /\ FirstPanel.Type = "grafana-piechart-panel"
    /\ MapBool(angularDetected, FirstPanel.Type)
    /\ cpDef.Dashboard.SchemaVersion = 30
    /\ cpOwn.out = << Detection("legacyPanel", "grafana-piechart-panel", "Panel one") >>

TableOutcome(r, sv) ==
    /\ (KindCount(r.out, {"legacyPanel"}) = 1) <=> (sv < 24)
    /\ sv >= 24 =>
          IF MapBool(angularDetected, "table")
          THEN KindCount(r.out, {"panel"}) = 1 /\ KindCount(r.out, {"legacyPanel"}) = 0
          ELSE KindCount(r.out, PanelKinds) = 0
    /\ sv < 24 => KindCount(r.out, {"panel"}) = 0

\* C3 as stated: a "table" panel gets a legacyPanel detection iff the schema
\* version is below 24; from 24 on it gets a panel detection iff the
\* classification map marks "table" true, otherwise no panel-kind detection.
C3_TableBoundary_AsStated ==
    (OwnChecked /\ FirstPanel.Type = "table")
        => TableOutcome(cpOwn, cpDef.Dashboard.SchemaVersion)

\* C3 amended: the same, for "table" panels whose datasource reference is
\* absent, a string or the structured form.
C3_TableBoundary ==
    (OwnChecked /\ FirstPanel.Type = "table" /\ WellFormedDs(FirstPanel.Datasource))
        => /\ cpOwn.err = NoErr
           /\ TableOutcome(cpOwn, cpDef.Dashboard.SchemaVersion)

C3_Witness ==
    /\ OwnChecked
    /\ FirstPanel.Type = "table"
    /\ cpDef.Dashboard.SchemaVersion = 24
    /\ MapBool(angularDetected, "table")
    /\ FirstPanel.Datasource = DsNil
    /\ cpOwn.out = << Detection("panel", "table", FirstPanel.Title) >>

\* the panel p with its datasource given as the structured reference of type t
WithStructuredDs(p, t) ==
    DashboardPanel(p.Type, p.Title, PanelDatasource(t), p.Panels)

ResolutionEquivalent(n) ==
    LET pl == datasourcePluginIDs[n]
        twin == checkPanel(cpDef, WithStructuredDs(FirstPanel, pl))
    IN  /\ DsDetections(cpOwn.out) = DsDetections(twin.out)
        /\ DsDetections(cpOwn.out) = << Detection("datasource", pl, FirstPanel.Title) >>

BareNameOfDeprecated ==
    /\ OwnChecked
    /\ FirstPanel.Datasource.k = "str"
    /\ FirstPanel.Datasource.v \in DOMAIN datasourcePluginIDs
    /\ MapBool(angularDetected, datasourcePluginIDs[FirstPanel.Datasource.v])

\* C4 as stated: for every name n the datasource map sends to a plugin id
\* marked true, the panel with the bare string n and the panel with the
\* structured reference of that plugin id get identical datasource detections.
C4_ResolutionEquivalence_AsStated ==
    BareNameOfDeprecated => ResolutionEquivalent(FirstPanel.Datasource.v)

\* C4 amended: the same for every non-empty name n (the empty string is
\* treated as "no datasource" and is never looked up).
C4_ResolutionEquivalence ==
    (BareNameOfDeprecated /\ FirstPanel.Datasource.v # "")
        => ResolutionEquivalent(FirstPanel.Datasource.v)

C4_Witness ==
    /\ BareNameOfDeprecated
    /\ FirstPanel.Datasource.v = "akumuli"
    /\ DsDetections(cpOwn.out)
         = << Detection("datasource", "akumuli-datasource", FirstPanel.Title) >>

\* a tree path a comes before the path b in pre-order: a is a proper prefix
\* of b, or a is smaller at the first position where they differ
PathBefore(a, b) ==
    \/ /\ Len(a) < Len(b)
       /\ \A j \in 1..Len(a) : a[j] = b[j]
    \/ \E i \in 1..Len(a) :
          /\ i <= Len(b)
          /\ a[i] < b[i]
          /\ \A j \in 1..(i - 1) : a[j] = b[j]

\* C5: checkPanels returns the detections in pre-order (a panel's detections
\* before its descendants', those before the next sibling's) and, within one
\* panel, the panel-kind detection before the datasource detection.  Panels
\* are titled by their path, so a detection's Title names its panel.
C5_PreOrder ==
    (cpKind = "tree" /\ cpAll # NotRun) =>
        \A i, j \in 1..Len(cpAll.out) :
            i < j =>
                \/ PathBefore(cpAll.out[i].Title, cpAll.out[j].Title)
                \/ /\ cpAll.out[i].Title = cpAll.out[j].Title
                   /\ cpAll.out[i].DetectionType \in PanelKinds
                   /\ cpAll.out[j].DetectionType = "datasource"

C5_Witness ==
    /\ cpKind = "tree"
    /\ cpAll # NotRun
    /\ cpAll.err = NoErr
    /\ Len(cpAll.out) >= 5
    /\ \E i \in 1..Len(cpAll.out) : Len(cpAll.out[i].Title) = 3
    /\ \E i, j \in 1..Len(cpAll.out) :
          /\ i < j
          /\ Len(cpAll.out[i].Title) >= 2
          /\ Len(cpAll.out[j].Title) = 1
    /\ \E i \in 1..(Len(cpAll.out) - 1) :
          cpAll.out[i].Title = cpAll.out[i + 1].Title

\* the plugin id checkPanel resolves the panel's datasource to
ResolvedPlugin(p) ==
    IF p.Datasource.k = "str" THEN MapStr(datasourcePluginIDs, p.Datasource.v)
    ELSE p.Datasource.v

Resolves(p) ==
    \/ p.Datasource.k = "str" /\ p.Datasource.v # ""
    \/ p.Datasource.k = "PanelDatasource"

AkumuliScenario ==
    /\ angularDetected = [k \in {"akumuli-datasource"} |-> TRUE]
    /\ datasourcePluginIDs = [n \in {"akumuli"} |-> "akumuli-datasource"]
    /\ cpDef = Definition(<< DashboardPanel("table", "Panel two",
                                            DsStr("akumuli"), << >>) >>, 30)

\* C6: whatever the panel check found, a panel whose datasource resolves to
\* a plugin id marked true gets exactly one datasource detection, with the
\* resolved plugin id and the panel's title; in the akumuli scenario the
\* whole output is that one detection.
C6_DatasourceCheck ==
    /\ (OwnChecked /\ Resolves(FirstPanel)
            /\ MapBool(angularDetected, ResolvedPlugin(FirstPanel)))
        => /\ cpOwn.err = NoErr
           /\ DsDetections(cpOwn.out)
                = << Detection("datasource", ResolvedPlugin(FirstPanel),
                               FirstPanel.Title) >>
    /\ (OwnChecked /\ AkumuliScenario)
        => cpOwn = [out |-> << Detection("datasource", "akumuli-datasource",
                                         "Panel two") >>,
                    err |-> NoErr]

C6_Witness ==
    /\ OwnChecked
    /\ cpKind = "single"
    /\ FirstPanel.Type = "graph"
    /\ FirstPanel.Datasource = PanelDatasource("akumuli-datasource")
    /\ cpOwn.out = << Detection("legacyPanel", "graph", "Panel two"),
                      Detection("datasource", "akumuli-datasource", "Panel two") >>

\* C7: checkPanel emits for one panel at most one detection of kind panel or
\* legacyPanel and at most one of kind datasource, so checkPanels never returns
\* more than twice as many detections as the tree has panels.
C7_Cardinality ==
    /\ OwnChecked =>
          /\ KindCount(cpOwn.out, PanelKinds) <= 1
          /\ KindCount(cpOwn.out, {"datasource"}) <= 1
          /\ KindCount(cpOwn.out, PanelKinds \cup {"datasource"}) = Len(cpOwn.out)
    /\ (cpStage = "fetched" /\ cpAll # NotRun) =>
          Len(cpAll.out) <= 2 * CountPanels(cpDef.Dashboard.Panels)

C7_Witness ==
    /\ OwnChecked
    /\ cpAll # NotRun
    /\ cpKind = "tree"
    /\ Len(cpOwn.out) = 2
    /\ CountPanels(cpDef.Dashboard.Panels) = 3
    /\ Len(cpAll.out) = 6

(***************************************************************************)
(* Properties of Detector.Run (checked under Spec)                         *)
(***************************************************************************)
RECURSIVE ListedUIDs(_, _)
\* the UIDs listed on the pages 1..k
ListedUIDs(pages, k) ==
    IF k = 0 \/ pages = << >> THEN {}
    ELSE IF k > Len(pages) THEN ListedUIDs(pages, Len(pages))
    ELSE {pages[k][i] : i \in 1..Len(pages[k])} \cup ListedUIDs(pages, k - 1)

AllUIDs == ListedUIDs(server.pages, Len(server.pages))

EntriesFor(out, uid) ==
    {i \in 1..Len(out) : out[i].Title = ListedDashboard(uid).Title}

FailedUIDs == {u \in DOMAIN fetchLog : fetchLog[u] = Failure}

Returned == pc = "done"

EveryMainCallSucceeded == \A i \in 1..Len(calls) : calls[i].ok

\* no fetched definition makes checkPanels fail
EveryDefinitionClassifies ==
    \A u \in DOMAIN fetchLog : fetchLog[u] \notin {"malformed", "badtype"}

AggregateNames(uid) ==
    /\ ret.err.kind = "errors occurred during dashboard download"
    /\ \E i \in 1..Len(ret.err.errors) :
          ret.err.errors[i] = [kind |-> "get dashboard", errors |-> << uid >>]

OneFetchFails ==
    /\ Returned
    /\ Cardinality(FailedUIDs) = 1
    /\ EveryMainCallSucceeded
    /\ EveryDefinitionClassifies

\* C1 as stated: when exactly one definition fetch (dashboard K) fails and
\* every other call succeeds, Run returns one entry for each of the other N-1
\* listed dashboards, whatever the paging, and an aggregate error naming K.
C1_PartialFailure_AsStated ==
    OneFetchFails =>
        \A uidK \in FailedUIDs :
            /\ Len(ret.out) = Cardinality(AllUIDs) - 1
            /\ \A u \in AllUIDs \ {uidK} : Cardinality(EntriesFor(ret.out, u)) = 1
            /\ AggregateNames(uidK)

\* C1 amended: Run returns one entry for each other dashboard listed on K's
\* page or on an earlier page, and none for the dashboards of later pages,
\* which are never fetched; the aggregate error names K.
C1_PartialFailure ==
    OneFetchFails =>
        \A uidK \in FailedUIDs :
            LET upToK == ListedUIDs(server.pages, page)
            IN  /\ uidK \in upToK \ ListedUIDs(server.pages, page - 1)
                /\ Len(ret.out) = Cardinality(upToK) - 1
                /\ \A u \in upToK \ {uidK} : Cardinality(EntriesFor(ret.out, u)) = 1
                /\ \A u \in AllUIDs \ upToK :
                      fetchLog[u] = "none" /\ EntriesFor(ret.out, u) = {}
                /\ AggregateNames(uidK)

C1_Witness ==
    /\ OneFetchFails
    /\ FailedUIDs = {2}
    /\ server.pages = << << 1 >>, << 2, 3 >> >>
    /\ Len(ret.out) = 2
    /\ ret.out[1].Title = ListedDashboard(1).Title
    /\ ret.out[2].Title = ListedDashboard(3).Title

EntryOf(e, uid) ==
    /\ e.Title = ListedDashboard(uid).Title
    /\ e.Folder = DashboardMeta(uid).FolderTitle
    /\ e.CreatedBy = DashboardMeta(uid).CreatedBy
    /\ e.UpdatedBy = DashboardMeta(uid).UpdatedBy
    /\ e.Created = DashboardMeta(uid).Created
    /\ e.Updated = DashboardMeta(uid).Updated

OneEntryPerSummary ==
    /\ ret.err = NilError
    /\ Len(ret.out) = Cardinality(AllUIDs)
    /\ \A u \in AllUIDs :
          /\ Cardinality(EntriesFor(ret.out, u)) = 1
          /\ \A i \in EntriesFor(ret.out, u) : EntryOf(ret.out[i], u)

EveryRemoteCallSucceeded ==
    /\ Returned
    /\ EveryMainCallSucceeded
    /\ FailedUIDs = {}

BundleHeld ==
    \/ pc \in {"permissions", "plugins", "gcom", "panels", "dsmeta", "datasources"}
    \/ /\ pc = "done"
       /\ ret.err.kind \in {"privilege", "get plugins", "get angular detected",
                            "is angular", "get datasource plugin ids"}

Unmarked(m) == m.Angular = "nil" /\ m.AngularDetected = "nil"

CatalogCalls == {"GetServiceAccountPermissions", "GetPlugins", "GetAngularDetected"}

\* C9 as stated: catalog classification is used iff no panel entry of the
\* bundle carries a marker, so the path is a function of the bundle.
C9_PathSelection_AsStated ==
    BundleHeld =>
        (useGCOM <=> \A k \in DOMAIN frontendSettings.Panels :
                        Unmarked(frontendSettings.Panels[k]))

\* C9 amended: catalog classification is used iff the panel section is not
\* empty and the one entry inspected carries no marker; an empty section
\* gives direct classification; the path is the same whichever entry is
\* inspected when the entries are all marked or all unmarked.
C9_PathSelection ==
    /\ BundleHeld =>
        LET panels == frontendSettings.Panels
        IN  /\ (probed = NoProbe) <=> (DOMAIN panels = {})
            /\ probed # NoProbe => probed \in DOMAIN panels
            /\ useGCOM <=> (probed # NoProbe /\ Unmarked(panels[probed]))
            /\ (\A k \in DOMAIN panels : Unmarked(panels[k]))
                  => (useGCOM <=> DOMAIN panels # {})
            /\ (\A k \in DOMAIN panels : ~Unmarked(panels[k])) => ~useGCOM
            /\ pc \in {"permissions", "plugins", "gcom"} => useGCOM
            /\ pc \in {"panels", "dsmeta"} => ~useGCOM
            /\ pc = "datasources" =>
                  (useGCOM <=> (Len(calls) >= 3 /\ calls[3].op = "GetPlugins"))
    /\ (\E i \in 1..Len(calls) : calls[i].op \in CatalogCalls) => useGCOM
    /\ ret.err.kind \in {"privilege", "get plugins", "get angular detected"} => useGCOM
    /\ ret.err.kind = "is angular" => ~useGCOM

C9_Witness ==
    /\ pc = "plugins"
    /\ useGCOM
    /\ probed = "text"
    /\ DOMAIN frontendSettings.Panels = {"angular-panel", "text"}
    /\ ~Unmarked(frontendSettings.Panels["angular-panel"])

\* C10: in catalog mode Run aborts with the privilege error iff the permission
\* fetch succeeded and the set has neither "datasources:create" nor
\* "plugins:install"; after the abort no further call is made; a failing
\* permission fetch does not abort, the plugin list is fetched next.
C10_PrivilegeCheck ==
    /\ permissions.state # "unset" =>
          /\ useGCOM
          /\ Len(calls) >= 2
          /\ calls[2].op = "GetServiceAccountPermissions"
          /\ calls[2].ok <=> permissions.state = "ok"
          /\ IF /\ permissions.state = "ok"
                /\ "datasources:create" \notin permissions.keys
                /\ "plugins:install" \notin permissions.keys
             THEN /\ pc = "done"
                  /\ ret = [out |-> << >>, err |-> Error("privilege")]
                  /\ Len(calls) = 2
                  /\ \A u \in DOMAIN fetchLog : fetchLog[u] = "none"
             ELSE /\ ret.err.kind # "privilege"
                  /\ Len(calls) = 2 => pc = "plugins"
                  /\ Len(calls) > 2 => calls[3].op = "GetPlugins"
    /\ ret.err.kind = "privilege" => permissions.state = "ok"
    /\ \A i \in 1..Len(calls) :
          calls[i].op = "GetServiceAccountPermissions" => i = 2 /\ useGCOM

C10_Witness ==
    /\ pc = "done"
    /\ ret.err.kind = "privilege"
    /\ permissions = [state |-> "ok", keys |-> {"dashboards:read"}]

\* the catalog loop has visited every installed plugin and the plugin list
\* is still held
CatalogLoopDone ==
    /\ useGCOM
    /\ \/ pc = "datasources"
       \/ pc = "done" /\ ret.err.kind = "get datasource plugin ids"

\* the visits of plugins that report a version
VersionedVisits == {i \in 1..Len(gcomLog) : gcomLog[i].plugin.Version # ""}

\* the last visit of a plugin id among the versioned visits
LastVisit(id) ==
    CHOOSE i \in VersionedVisits :
        /\ gcomLog[i].plugin.ID = id
        /\ \A j \in VersionedVisits : gcomLog[j].plugin.ID = id => j <= i

\* the catalog's flag for exactly this version, FALSE when the catalog
\* answered not-found or lists no such version
CatalogFlag(visit) ==
    /\ visit.resp.status = "ok"
    /\ \E k \in 1..Len(visit.resp.Items) :
          /\ visit.resp.Items[k].Version = visit.plugin.Version
          /\ visit.resp.Items[k].AngularDetected
          /\ \A l \in 1..(k - 1) : visit.resp.Items[l].Version # visit.plugin.Version

\* C11: in catalog mode the classification map has a key exactly for the
\* installed plugins reporting a non-empty version; its value is the
\* catalog's flag of the item with exactly that version, and FALSE, without
\* any error, when the catalog answers not-found or has no such item.
C11_CatalogClassification ==
    /\ CatalogLoopDone =>
          /\ DOMAIN angularDetected = {gcomLog[i].plugin.ID : i \in VersionedVisits}
          /\ \A id \in DOMAIN angularDetected :
                angularDetected[id] = CatalogFlag(gcomLog[LastVisit(id)])
          /\ \A i \in 1..Len(gcomLog) :
                /\ gcomLog[i].resp.status = "none" <=> gcomLog[i].plugin.Version = ""
                /\ gcomLog[i].resp.status # "error"
    /\ ret.err.kind = "get angular detected" =>
          /\ gcomLog # << >>
          /\ gcomLog[Len(gcomLog)].resp.status = "error"
          /\ ret.out = << >>

C11_Witness ==
    /\ CatalogLoopDone
    /\ pc = "datasources"
    /\ Len(gcomLog) = 2
    /\ gcomLog[1].resp.status = "badStatus"
    /\ gcomLog[2].resp = CatalogResponse("ok", << PluginVersion("1.0.0", TRUE) >>)
    /\ gcomLog[1].plugin.ID # gcomLog[2].plugin.ID
    /\ angularDetected[gcomLog[1].plugin.ID] = FALSE
    /\ angularDetected[gcomLog[2].plugin.ID] = TRUE

\* both range loops of the direct branch have run to their end and the
\* bundle is still held
DirectLoopsDone ==
    /\ ~useGCOM
    /\ \/ pc = "datasources"
       \/ pc = "done" /\ ret.err.kind = "get datasource plugin ids"

\* the newer nested marker when present, otherwise the older one
ResolvedMarker(m) ==
    IF m.Angular # "nil" THEN m.Angular = "true" ELSE m.AngularDetected = "true"

SomeEntryUnmarked ==
    \/ \E k \in DOMAIN frontendSettings.Panels : Unmarked(frontendSettings.Panels[k])
    \/ \E n \in DOMAIN frontendSettings.Datasources :
          Unmarked(frontendSettings.Datasources[n].Marker)

DatasourceTypes ==
    {frontendSettings.Datasources[n].Type : n \in DOMAIN frontendSettings.Datasources}

\* C12: in direct mode every panel and datasource entry is classified by its
\* newer nested marker when present, even against a disagreeing older marker,
\* otherwise by the older marker; an entry with neither marker makes Run
\* return the unknown-classification-status error and no Report Entry.
C12_MarkerResolution ==
    /\ DirectLoopsDone =>
          /\ ~SomeEntryUnmarked
          /\ DOMAIN angularDetected = DOMAIN frontendSettings.Panels \cup DatasourceTypes
          /\ \A k \in DOMAIN frontendSettings.Panels \ DatasourceTypes :
                angularDetected[k] = ResolvedMarker(frontendSettings.Panels[k])
          /\ \A t \in DatasourceTypes :
                \E n \in DOMAIN frontendSettings.Datasources :
                    /\ frontendSettings.Datasources[n].Type = t
                    /\ angularDetected[t] =
                          ResolvedMarker(frontendSettings.Datasources[n].Marker)
    /\ (~useGCOM /\ BundleHeld /\ SomeEntryUnmarked) =>
          \/ pc \in {"panels", "dsmeta"}
          \/ pc = "done" /\ ret.err.kind = "is angular"
    /\ ret.err.kind = "is angular" =>
          /\ ~useGCOM
          /\ SomeEntryUnmarked
          /\ ret.out = << >>
          /\ Len(calls) = 1
          /\ \A u \in DOMAIN fetchLog : fetchLog[u] = "none"

C12_Witness ==
    /\ DirectLoopsDone
    /\ pc = "datasources"
    /\ DOMAIN frontendSettings.Panels = {"angular-panel", "text"}
    /\ frontendSettings.Panels["angular-panel"] = Marker("false", "true")
    /\ frontendSettings.Panels["text"] = Marker("nil", "true")
    /\ angularDetected["angular-panel"] = FALSE
    /\ angularDetected["text"] = TRUE
    /\ DOMAIN frontendSettings.Datasources = {"akumuli"}
    /\ frontendSettings.Datasources["akumuli"] =
          FrontendSettingsDatasource("akumuli-datasource", Marker("true", "nil"))
    /\ angularDetected["akumuli-datasource"] = TRUE

\* Run has built both maps
MapsBuilt ==
    \/ pc \in {"list", "fanout"}
    \/ /\ pc = "done"
       /\ ret.err.kind \in {"nil", "get dashboards",
                            "errors occurred during dashboard download"}

\* C13 as stated: with the maps Run has built, a panel whose datasource is a
\* bare non-empty string absent from the name-to-plugin map yields no
\* datasource detection.
C13_UnresolvedNeverFlagged_AsStated ==
    MapsBuilt =>
        \A n \in {"akumuli", "ghost"} \ DOMAIN datasourcePluginIDs :
            DsDetections(checkPanel(Definition(<< >>, 30),
                                    DashboardPanel("text", "Panel one", DsStr(n), << >>)).out)
                = << >>

CheckPanelsErrors ==
    {i \in 1..Len(downloadErrors) : downloadErrors[i].kind = "check panels"}

\* C14 as stated: whatever the shape of a panel's datasource reference,
\* fetching and classifying a dashboard does not panic; a reference that is
\* neither absent, a string nor the structured form costs that dashboard its
\* Report Entry and adds one error to the aggregate error, the other
\* dashboards keep their entries.
C14_NoCrashOnDataShape_AsStated ==
    /\ maxConcurrency >= 0 => pc # "crashed"
    /\ (pc = "done" /\ ret.err.kind = "errors occurred during dashboard download") =>
          /\ \A u \in DOMAIN fetchLog :
                /\ fetchLog[u] = "malformed" => EntriesFor(ret.out, u) = {}
                /\ fetchLog[u] \in {"clean", "angular"} =>
                      Cardinality(EntriesFor(ret.out, u)) = 1
          /\ Cardinality(CheckPanelsErrors) =
                Cardinality({u \in ListedUIDs(server.pages, page) \ ListedUIDs(server.pages, page - 1) :
                                fetchLog[u] = "malformed"})

\* the workers between the acquire and the deferred release
Holders ==
    {i \in 1..Len(workers) :
        workers[i].pc \in {"fetch", "check", "lockErr", "lockOut", "appendErr",
                           "appendOut", "release"}}

\* the workers whose GetDashboard call is in flight
InFlight == {i \in 1..Len(workers) : workers[i].pc = "fetch"}

\* C15: at every moment the number of workers that have acquired and not yet
\* released the semaphore, and so the number of definition fetches in
\* flight, is at most the configured maximum concurrency (no worker at all
\* when that value is negative).
C15_BoundedFanOut ==
    /\ Holders = semaphore
    /\ InFlight \subseteq Holders
    /\ maxConcurrency >= 0 => Cardinality(Holders) <= maxConcurrency
    /\ maxConcurrency < 0 => Holders = {}

C15_Witness ==
    /\ pc = "fanout"
    /\ maxConcurrency = 2
    /\ Cardinality(InFlight) = 2
    /\ \E i \in 1..Len(workers) : workers[i].pc = "acquire"

ListingCalls == SelectSeq(calls, LAMBDA c : c.op = "GetDashboards")

\* C16: the listing pages are requested as 1, 2, 3, ... without gap or
\* repeat, a page only after the page before it came back non-empty; a run
\* without error ends right after the first page that comes back empty.
C16_Pagination ==
    /\ \A i \in 1..Len(ListingCalls) : ListingCalls[i].page = i
    /\ \A i \in 1..(Len(ListingCalls) - 1) :
          ListingCalls[i].ok /\ PageOf(server.pages, i) # << >>
    /\ Len(ListingCalls) = page
    /\ ListingCalls # << >> => calls[Len(calls)].op = "GetDashboards"
    /\ (pc = "done" /\ ret.err = NilError) =>
          /\ ListingCalls # << >>
          /\ ListingCalls[Len(ListingCalls)].ok
          /\ PageOf(server.pages, Len(ListingCalls)) = << >>
          /\ Len(ListingCalls) = Len(server.pages) + 1

C16_Witness ==
    /\ pc = "done"
    /\ ret.err = NilError
    /\ server.pages = << << 1 >>, << 2, 3 >> >>
    /\ Len(ListingCalls) = 3
    /\ Len(ret.out) = 3

\* C17: a failed listing call for page N is the last remote call of the run;
\* Run returns the wrapped listing error and no Report Entry, and no
\* dashboard of page N is fetched.
C17_ListingFailureFatal ==
    /\ \A i \in 1..Len(calls) :
          (calls[i].op = "GetDashboards" /\ ~calls[i].ok) =>
              /\ i = Len(calls)
              /\ pc = "done"
              /\ ret = [out |-> << >>, err |-> Error("get dashboards")]
              /\ \A u \in AllUIDs \ ListedUIDs(server.pages, calls[i].page - 1) :
                    fetchLog[u] = "none"
    /\ ret.err.kind = "get dashboards" =>
          /\ calls # << >>
          /\ calls[Len(calls)].op = "GetDashboards"
          /\ ~calls[Len(calls)].ok

C17_Witness ==
    /\ pc = "done"
    /\ ret.err.kind = "get dashboards"
    /\ ret.out = << >>
    /\ calls[Len(calls)] = Call("GetDashboards", 2, "", FALSE)
    /\ Len(finalOutput) = 2
    /\ server.pages = << << 1, 2 >>, << 3 >> >>

\* the classification keys that the responses of the current run can create
KeysOfThisRun ==
    IF useGCOM
    THEN {gcomLog[i].plugin.ID : i \in VersionedVisits}
    ELSE (DOMAIN frontendSettings.Panels) \cup DatasourceTypes

\* C18 as stated: every run starts cold, also a second Run on the same
\* Detector: at the entry of Run the classification map has no entry, and
\* once the map is built every one of its keys comes from a response of this
\* run.
C18_ColdStart_AsStated ==
    /\ pc = "start" => angularDetected = EmptyMap
    /\ (CatalogLoopDone \/ DirectLoopsDone) =>
          DOMAIN angularDetected \subseteq KeysOfThisRun

\* Run returned the aggregate download error together with Report Entries
PartialReport ==
    /\ pc = "done"
    /\ ret.err.kind = "errors occurred during dashboard download"
    /\ ret.out # << >>

\* C19 as stated: when Run returns the aggregate error together with at
\* least one Report Entry, runDetection has, by the time it returns,
\* published those entries: they are the data served at /output or are in
\* the hands of the goroutine that stores them.
C19_PartialResultsPublished_AsStated ==
    (mainPc = "select" /\ PartialReport) =>
        \/ outputData = ret.out
        \/ consumerPc = "store" /\ consumerData = ret.out

FetchedUIDs == {u \in AllUIDs : fetchLog[u] # "none"}

\* what the response recorded for a dashboard and the two maps determine:
\* the definition, the result of checkPanels, the Report Entry and the error
DefinitionFor(u) ==
    LET decoded == DecodedDefinition(fetchLog[u], u)
    IN  DashboardDefinition(ConvertPanels(decoded.Dashboard.Panels),
                            decoded.Dashboard.SchemaVersion, decoded.Meta)

ClassifiedFor(u) == checkPanels(DefinitionFor(u), DefinitionFor(u).Dashboard.Panels)

YieldsEntry(u) == fetchLog[u] # Failure /\ ClassifiedFor(u).err = NoErr

EntryFor(u) ==
    Dashboard(DashboardAbsURL(server.baseURL, ListedDashboard(u)), ListedDashboard(u),
              DefinitionFor(u), ClassifiedFor(u).out)

ErrorFor(u) ==
    IF fetchLog[u] = Failure
    THEN [kind |-> "get dashboard", errors |-> << u >>]
    ELSE [kind |-> "check panels", errors |-> << ClassifiedFor(u).err >>]

\* the page that lists a UID
PageNoOf(u) == CHOOSE k \in 1..Len(server.pages) : u \in ListedUIDs(server.pages, k) \ ListedUIDs(server.pages, k - 1)

\* the UIDs of the page in fan-out
CurrentUIDs == {dashboards[i].UID : i \in 1..Len(dashboards)}

\* no worker task of the current page is unfinished
PageSettled ==
    /\ pc \in {"fanout", "list", "done"}
    /\ page >= 1
    /\ dashboards # << >>
    /\ spawned = Len(dashboards)
    /\ wg = 0

SeqSet(q) == {q[i] : i \in 1..Len(q)}

\* C21: the Report Entries and the collected errors are a function of the
\* remote responses alone: once the worker tasks of a page have finished,
\* under every interleaving the entry sequence holds exactly one entry, the
\* one its response determines, for every fetched dashboard that yields one,
\* the error list holds exactly the errors the responses of the page
\* determine, and entries of an earlier page precede those of a later page.
C21_InterleavingIndependence ==
    PageSettled =>
        /\ SeqSet(finalOutput) = {EntryFor(u) : u \in {v \in FetchedUIDs : YieldsEntry(v)}}
        /\ Len(finalOutput) = Cardinality({v \in FetchedUIDs : YieldsEntry(v)})
        /\ SeqSet(downloadErrors) =
              {ErrorFor(u) : u \in {v \in FetchedUIDs \cap CurrentUIDs : ~YieldsEntry(v)}}
        /\ Len(downloadErrors) =
              Cardinality({v \in FetchedUIDs \cap CurrentUIDs : ~YieldsEntry(v)})
        /\ \A i, j \in 1..Len(finalOutput) :
              i < j =>
                 \A u, v \in FetchedUIDs :
                    (finalOutput[i] = EntryFor(u) /\ finalOutput[j] = EntryFor(v))
                        => PageNoOf(u) <= PageNoOf(v)

\* two dashboards of one page whose entries were appended against the
\* listing order, next to the entry of an earlier page
C21_Witness ==
    /\ PageSettled
    /\ pc = "done"
    /\ server.pages = << << 1 >>, << 2, 3 >> >>
    /\ Len(finalOutput) = 3
    /\ finalOutput[2] = EntryFor(3)
    /\ finalOutput[3] = EntryFor(2)
    /\ finalOutput[3].Detections # << >>

AllTasksFinished == \A i \in 1..Len(workers) : workers[i].pc = "done"

\* C23: the listing request for the next page is issued, and the worker
\* tasks of the next page are created, only when every worker task of the
\* current page has finished; between the barrier and that request no task
\* is running.
C23_PageBarrier ==
    /\ [](pc = "list" => AllTasksFinished)
    /\ [][(page' = page + 1) => AllTasksFinished]_vars

\* a task of page 2 is fetching while both entries of page 1 are in place
C23_Witness ==
    /\ pc = "fanout"
    /\ page = 2
    /\ server.pages = << << 1, 2 >>, << 3 >> >>
    /\ Len(calls) >= 2
    /\ calls[Len(calls)] = Call("GetDashboards", 2, "", TRUE)
    /\ Len(finalOutput) = 2
    /\ workers[1].pc = "fetch"
    /\ workers[1].dash.UID = 3

\* a listing call has been made
ListingStarted == \E i \in 1..Len(calls) : calls[i].op = "GetDashboards"

\* the errors of the two resolvers
ResolverErrors ==
    {"get frontend settings", "privilege", "get plugins", "get angular detected",
     "is angular", "get datasource plugin ids"}

\* C24: when the classification resolver is through, the classification map
\* holds every key of the run; at the first listing call both resolver loops
\* are over and the datasource map is the one built from an answered
\* datasource list; a run that returns a resolver error has made no listing
\* call and no definition request; and from the end of the classification
\* resolver on no step writes to the classification map, from the first
\* listing call on none writes to the datasource map.
C24_BuildPrecedesFanOut ==
    /\ [](pc = "datasources" => DOMAIN angularDetected = KeysOfThisRun)
    /\ [](ListingStarted =>
            /\ pendingKeys = {}
            /\ pendingPlugins = << >>
            /\ \E i \in 1..Len(calls) :
                  /\ calls[i] = Call("GetDatasourcePluginIDs", 0, "", TRUE)
                  /\ \A j \in 1..i : calls[j].op # "GetDashboards"
            /\ \E l \in DatasourceLists(server.population) :
                  datasourcePluginIDs = DatasourceMap(l, 1, [n \in {} |-> ""]))
    /\ []((pc = "done" /\ ret.err.kind \in ResolverErrors) =>
            /\ ~ListingStarted
            /\ \A u \in DOMAIN fetchLog : fetchLog[u] = "none")
    /\ [][(pc \in {"datasources", "list", "fanout"}) =>
             angularDetected' = angularDetected]_vars
    /\ [][ListingStarted' => datasourcePluginIDs' = datasourcePluginIDs]_vars

\* a worker classifies with both maps filled, long after they were built
C24_Witness ==
    /\ pc = "fanout"
    /\ ListingStarted
    /\ DOMAIN angularDetected = {"angular-panel", "text", "akumuli-datasource"}
    /\ DOMAIN datasourcePluginIDs = {"akumuli"}
    /\ \E i \in 1..Len(workers) : workers[i].pc = "check"

\* the workers between mu.Lock() and mu.Unlock()
InCriticalSection ==
    {i \in 1..Len(workers) : workers[i].pc \in {"appendErr", "appendOut"}}

\* the workers that have appended and unlocked
Appended == {i \in 1..Len(workers) : workers[i].pc \in {"release", "done"}}

\* C25: at most one worker is between Lock and Unlock and it is the holder
\* of the mutex; every append to finalOutput or downloadErrors during the
\* fan-out is made by the holder and adds the holder's own entry or error;
\* a worker that fetches or classifies does not hold the mutex; and no
\* append is lost: the workers that have appended account for as many
\* collected errors and as many entries of the page as there are of them.
C25_MutualExclusion ==
    /\ [](pc = "fanout" =>
            /\ Cardinality(InCriticalSection) <= 1
            /\ InCriticalSection = (IF mu = 0 THEN {} ELSE {mu})
            /\ Len(downloadErrors) =
                  Cardinality({i \in Appended : workers[i].err # NilError})
            /\ Cardinality({k \in 1..Len(finalOutput) :
                              \E u \in CurrentUIDs :
                                 finalOutput[k].Title = ListedDashboard(u).Title}) =
                  Cardinality({i \in Appended : workers[i].err = NilError}))
    /\ [][(pc = "fanout" /\ finalOutput' # finalOutput) =>
             /\ mu # 0
             /\ workers[mu].pc = "appendOut"
             /\ finalOutput' = Append(finalOutput, workers[mu].out)
             /\ mu' = 0]_vars
    /\ [][(pc = "fanout" /\ downloadErrors' # downloadErrors) =>
             /\ mu # 0
             /\ workers[mu].pc = "appendErr"
             /\ downloadErrors' = Append(downloadErrors, workers[mu].err)
             /\ mu' = 0]_vars

\* a worker appends its entry while another waits for the mutex and a third
\* has not yet acquired the semaphore
C25_Witness ==
    /\ pc = "fanout"
    /\ maxConcurrency = 2
    /\ Len(workers) = 3
    /\ mu # 0
    /\ workers[mu].pc = "appendOut"
    /\ \E j \in 1..3 : workers[j].pc = "lockErr"
    /\ \E j \in 1..3 : workers[j].pc = "acquire"

\* wg.Wait() has returned for the page in dashboards
BarrierPassed == PageSettled /\ pc \in {"list", "done"}

\* the positions of a worker's contributions in the two accumulators
EntriesOfTask(i) ==
    {k \in 1..Len(finalOutput) : finalOutput[k].Title = workers[i].dash.Title}

ErrorsOfTask(i) ==
    {k \in 1..Len(downloadErrors) :
        workers[i].err # NilError /\ downloadErrors[k] = workers[i].err}

\* C26: once the barrier of a page is passed, every dashboard summary of
\* the page has contributed either one Report Entry or one collected error,
\* never both and never neither, and the entries of the page and the
\* collected errors together are as many as the page has summaries.
C26_ExactlyOneContribution ==
    BarrierPassed =>
        /\ Len(workers) = Len(dashboards)
        /\ \A i \in 1..Len(workers) :
              /\ workers[i].dash = dashboards[i]
              /\ IF workers[i].err = NilError
                 THEN Cardinality(EntriesOfTask(i)) = 1 /\ ErrorsOfTask(i) = {}
                 ELSE EntriesOfTask(i) = {} /\ ErrorsOfTask(i) # {}
        /\ Cardinality(UNION {EntriesOfTask(i) : i \in 1..Len(workers)})
              + Len(downloadErrors) = Len(dashboards)

\* a page of three: one entry, one failed fetch, one failed classification
C26_Witness ==
    /\ BarrierPassed
    /\ pc = "done"
    /\ server.pages = << << 1, 2, 3 >> >>
    /\ Len(finalOutput) = 1
    /\ Len(downloadErrors) = 2
    /\ \E k \in 1..2 : downloadErrors[k].kind = "get dashboard"
    /\ \E k \in 1..2 : downloadErrors[k].kind = "check panels"

\* C27 as stated: with a concurrency limit of 0 or more, remote calls that
\* all return and a listing that ends with an empty page, Run eventually
\* returns.
C27_Termination_AsStated == (maxConcurrency >= 0) ~> (pc = "done")

\* the same for a limit of 1 or more, and for a limit of 0 when the server
\* lists no dashboard: these hold
TerminatesWithPositiveLimit == (maxConcurrency >= 1) ~> (pc = "done")

TerminatesWithoutDashboards ==
    (maxConcurrency = 0 /\ server.pages = << >>) ~> (pc = "done")

\* the errors Run raises outside the fan-out
FatalErrors == ResolverErrors \cup {"get dashboards"}

\* C28: whenever Run returns an error raised outside the per-dashboard
\* fan-out (a resolver error or a listing failure on any page), the
\* returned entry sequence is empty, whatever has been accumulated from
\* earlier pages; and every error Run returns is one of these or the
\* aggregate download error.
C28_FatalErrorsReturnNothing ==
    pc = "done" =>
        /\ ret.err.kind \in FatalErrors => ret.out = << >>
        /\ ret.err.kind \in FatalErrors
                \cup {"nil", "errors occurred during dashboard download"}

\* the listing of page 3 fails with the entries of two pages accumulated
C28_Witness ==
    /\ pc = "done"
    /\ ret.err.kind = "get dashboards"
    /\ server.pages = << << 1 >>, << 2 >> >>
    /\ page = 3
    /\ Len(finalOutput) = 2
    /\ ret.out = << >>

\* the GET requests answered on a path
Gets(path) ==
    {i \in 1..Len(httpLog) : httpLog[i].path = path /\ httpLog[i].method = "GET"}

HasDetections(d) == d.Detections # << >>

\* items holds exactly the members of stored that have detections, in the
\* order of stored and each once
FilteredCopy(items, stored) ==
    /\ \A a \in 1..Len(items) : HasDetections(items[a])
    /\ Len(items) = Cardinality({k \in 1..Len(stored) : HasDetections(stored[k])})
    /\ Cardinality(SeqSet(items)) = Len(items)
    /\ \A k \in 1..Len(stored) :
          HasDetections(stored[k]) => stored[k] \in SeqSet(items)
    /\ \A a, b \in 1..Len(items) :
          a < b => \E ka, kb \in 1..Len(stored) :
                      ka < kb /\ stored[ka] = items[a] /\ stored[kb] = items[b]

\* C30: answering a request on /output leaves the stored dashboards
\* unchanged; GET requests with no store between them get identical
\* bodies; and a body given since the last store holds exactly the stored
\* dashboards that have a detection, in stored order, none twice.
C30_OutputServing ==
    /\ [][(Len(httpLog') > Len(httpLog)) => outputData' = outputData]_vars
    /\ [](\A i, j \in Gets("/output") :
            httpLog[i].stores = httpLog[j].stores => httpLog[i].resp = httpLog[j].resp)
    /\ [](\A i \in Gets("/output") :
            /\ httpLog[i].resp.status = 200
            /\ httpLog[i].resp.null = (httpLog[i].resp.items = << >>)
            /\ httpLog[i].stores = stores =>
                  FilteredCopy(httpLog[i].resp.items, outputData))

\* two GET /output after the only store: the same body with the one
\* dashboard that has detections, the stored pair untouched
C30_Witness ==
    /\ Len(httpLog) = 2
    /\ Gets("/output") = {1, 2}
    /\ stores = 1
    /\ httpLog[1].stores = 1
    /\ httpLog[2].resp = httpLog[1].resp
    /\ Len(httpLog[2].resp.items) = 1
    /\ Len(outputData) = 2
    /\ ~HasDetections(outputData[1])
    /\ HasDetections(outputData[2])

====
